---- MODULE Spec2Model ----
(***************************************************************************)
(* Model of the WebRTC multi-object-detection demo:                        *)
(*   - the percentile helpers of the metrics code (pure functions),        *)
(*   - the desktop render / detection loop (DesktopPage.jsx, detection.js),*)
(*   - the signaling relay and its session registry (server/main.py is not *)
(*     part of the sources; that part follows spec.md sections 3-5).       *)
(* Each part has its own next-state relation and specification; Next is    *)
(* their disjunction.                                                      *)
(***************************************************************************)
EXTENDS Integers, Sequences, FiniteSets

(***************************************************************************)
(* Bounds of the model.                                                    *)
(***************************************************************************)
\* longest sample window fed to the percentile helpers
MaxWin == 4

\* sample values (milliseconds) a window is drawn from
SampleValues == {10, 20, 30, 40}

\* the percentiles asked for
Percents == 0..100

\* frames the transport delivers to the viewer's video element
MaxFrames == 4

\* detector.detect calls made by the render loop
MaxCalls == 6

\* ObjectDetector.detectionInterval
detectionInterval == 3

\* detection lists the engine can return (class names of the boxes)
DetResults == {<<>>, <<"person">>, <<"person", "cup">>}

\* participant connections (message channels) that are ever opened
MaxConn == 3

Conns == 1..MaxConn

\* negotiation messages one participant sends over its channel
MaxSeq == 4

\* readings of performance.now() (milliseconds): the clock runs to
\* MaxClock steps, each step one of ClockSteps
MaxClock == 6

ClockSteps == {500}

\* runs of render that reach its metrics block
MaxTicks == 4

\* MetricsTracker.maxSamples
maxSamples == 30

\* updateBandwidth calls suspended at getStats at one time
MaxPending == 2

\* video bytes the transport counts before the model stops the traffic
MaxBytes == 500

\* bytes <<received, sent>> that one burst of traffic adds to the counters
TrafficSteps == {<<125, 0>>, <<250, 125>>}

\* benchmark runs started
MaxRuns == 1

\* durationSec handed to startBench
Durations == {1, 2}

\* capacity N the window of end-to-end latency samples is said to have
WindowN == 3

\* a capture_ts message carries the producer's clock reading: the viewer's
\* clock plus one of these (the two clocks are not synchronised)
CaptureSkews == {-100, 700}

\* ice-candidate messages one endpoint receives
MaxCand == 2

Candidates == 1..MaxCand

\* the peer's session description (offer or answer) among the messages to deliver
Sdp == 0

\* the two endpoints: DesktopPage (viewer) and JoinPage (producer)
Endpoints == {"viewer", "producer"}

\* failed v.play() calls before the model lets play() succeed only
MaxPlayFailures == 5

\* track events of the peer connection (pc.ontrack runs)
MaxTrackEvents == 2

\* calls of updateFPS
MaxFpsCalls == 5

\* calls of detect made by DetectCall
MaxDetectCalls == 8

\* samples pushed onto one history of the tracker
MaxPushes == 32

\* the tracker's histories
Histories == {"fpsHistory", "latencyHistory", "bandwidthHistory"}

\* offer and ice-candidate messages the viewer receives
MaxPeerMsgs == 4

\* local candidates the phone's peer connection gathers
MaxLocalCand == 4

\* number of failed attempts after which retrying is said to stop
RetryLimit == 3

\* session identifiers
Sessions == {"s1", "s2"}

Roles == {"producer", "viewer"}

NegotiationTypes == {"offer", "answer", "ice-candidate"}

\* the negotiation messages a client sends: type and opaque payload
MsgKinds ==
  {[type |-> "offer", payload |-> "sdpA"],
   [type |-> "answer", payload |-> "sdpB"],
   [type |-> "ice-candidate", payload |-> "candA"]}

VARIABLES
  \* ---- percentile helpers
  pctValues,     \* the window handed to percentile(values, p)
  pctP,          \* the p handed to it
  pctOut,        \* result of DesktopPage percentile, in hundredths; -1 = not computed
  trkOut,        \* result of MetricsTracker.calculatePercentile on the sorted window
  \* ---- desktop render loop and detector
  isDetectionRunning,   \* isDetectionRunning.current
  rafPending,           \* render callbacks handed to requestAnimationFrame, not yet run
  videoDims,            \* video.videoWidth && video.videoHeight
  videoFrame,           \* sequence number of the frame the video element shows; 0 = none
  modelType,            \* detector.modelType
  isLoaded,             \* detector.isLoaded
  frameCount,           \* detector.frameCount
  inFlight,             \* detect calls whose promise is unresolved (render is suspended on them)
  lastDetections,       \* lastDetections.current
  lastDetectionsFrame,  \* history: the frame lastDetections.current was computed on
  appliedFrames,        \* history: frames whose result was stored in lastDetections, in order
  lastSubmitted,        \* history: the frame the latest inference ran on; 0 = none
  arrivedInFlight,      \* history: frames that arrived since the latest submission, while it was unresolved
  skippedOver,          \* history: value of arrivedInFlight when the latest submission was made
  canvas,               \* the overlay canvas: [boxes, frame] of the latest drawDetections call
  lastRun,              \* history: [kind, frame] of the latest run of render that had a video size
  engineErrors,         \* history: inference calls that threw
  \* ---- signaling relay and session registry
  transport,     \* per connection: "idle" (never opened), "open", "closed"
  registry,      \* Session Registry: set of [sess, role, conn]
  relayState,    \* per session: "Empty", "AwaitingPeer", "Paired"
  lock,          \* per session: the connection whose task holds the session, 0 = free
  joinCall,      \* per connection: its register call (position, arguments, outcome)
  gone,          \* connections the relay has deregistered or seen closing
  lastMsg,       \* the negotiation message the relay took in in its latest step, or NoMsg
  outbox,        \* the messages the relay wrote in its latest step: set of [to, msg]
  \* ---- one connection's task in the relay, message by message
  wire,          \* messages the participant sent that the relay has not read yet (FIFO)
  nextSeq,       \* number the participant's next message gets
  recvCount,     \* messages the relay has read from this participant
  handling,      \* messages read and not yet written or dropped: set of [seq, rcv]
  peerPresent,   \* the participant's session has a registered peer
  peerChan,      \* history: rcv of the messages written to the peer, in writing order
  \* ---- viewer-side metrics: clock, per-frame store
  now,             \* performance.now() on the viewer
  clockSteps,      \* history: steps the clock has made
  lastCaptureTs,   \* lastCaptureTsRef.current; 0 = none received
  e2eLatencyMs,    \* metricsStoreRef.current.e2eLatencyMs
  frameIndex,      \* frameIndexRef.current
  processedFrames, \* processedFramesRef.current
  ticks,           \* history: runs of render that reached the metrics block
  \* ---- MetricsTracker bandwidth sampling and the transport's counters
  peerConnection,     \* this.peerConnection is set
  bytesReceived,      \* transport: bytesReceived summed over the inbound-rtp video reports
  bytesSent,          \* transport: bytesSent summed over the outbound-rtp video reports
  bwPending,          \* updateBandwidth calls suspended at await getStats()
  lastBandwidthCheck, \* this.lastBandwidthCheck
  lastBytesReceived,  \* this.lastBytesReceived
  lastBytesSent,      \* this.lastBytesSent
  bandwidthHistory,   \* this.bandwidthHistory: sequence of [uplink, downlink] (kbps)
  currentBandwidth,   \* this.currentBandwidth
  samplingCalls,      \* history: updateBandwidth calls that got past the once-per-second gate
  \* ---- benchmark runner (startBench)
  benchRunning,    \* benchRunningRef.current
  durationSec,     \* startBench's argument, held by the closure of benchTick
  endAt,           \* start + durationSec * 1000, held by the closure of benchTick
  benchRaf,        \* benchTick is handed to requestAnimationFrame and has not run yet
  bwTimer,         \* the setInterval polling updateBandwidth is active
  artifact,        \* payload of the latest metrics.json download, or NoArtifact
  runs,            \* history: benchmark runs started
  ticksAtStart,    \* history: value of ticks when the latest run started
  bwAtStart,       \* history: length of bandwidthHistory when the latest run started
  firstTickAt,     \* history: clock reading of the first benchTick of the latest run; -1 = none yet
  artifacts,       \* history: metrics.json downloads so far
  \* ---- the endpoints' handling of the peer's description and candidates
  toDeliver,          \* per endpoint: messages of the peer not yet delivered (Sdp, candidates)
  remoteDescription,  \* per endpoint: pc.remoteDescription is "none", "pending" (being set), "set"
  chained,            \* per endpoint: addIceCandidate calls waiting in pc's operations chain
  pendingCandidates,  \* JoinPage pendingCandidates (FIFO)
  flushing,           \* handleAnswer is in its flush loop
  added,              \* per endpoint: candidates added to the peer connection, in order
  rejected,           \* per endpoint: candidates whose addIceCandidate rejected
  queuedEver,         \* history: candidates JoinPage has pushed onto pendingCandidates, in order
  \* ---- playback of the remote stream (pc.ontrack)
  trackEvents,        \* times ontrack has assigned a stream to the video element
  metadataLoaded,     \* v.onloadedmetadata has fired for the stream assigned last
  playCalls,          \* v.play() promises not settled yet
  retryTimers,        \* setTimeout(tryPlay, 300) timers not fired yet
  failedPlays,        \* history: v.play() calls that rejected
  connectionStatus,   \* the status line: "waiting", "connecting", "streaming", "error"
  \* ---- frames-per-second counters (MetricsTracker.updateFPS, DesktopPage updateFPS)
  fpsFrameCount,      \* this.fpsFrameCount
  lastFpsTime,        \* this.lastFpsTime
  fpsHistory,         \* this.fpsHistory
  currentFps,         \* this.currentFps
  fpsFrameCountRef,   \* fpsFrameCount.current
  lastFpsTimeRef,     \* lastFpsTime.current
  currentFpsRef,      \* currentFpsRef.current
  fpsSamples,         \* metricsStoreRef.current.fps
  fpsCalls,           \* history: calls of updateFPS, one per rendered frame
  sampledFrames,      \* history: frames that went into each value of fpsHistory
  sampledFramesRef,   \* history: frames that went into each value the page computed
  \* ---- the detector's model loading (ObjectDetector.initialize) and its detect method
  model,              \* this.model: "null", "graph" (tf.loadGraphModel), "coco" (cocoSsd.load)
  loadErrorText,      \* this.loadError: "null", or which message it holds
  initPc,             \* where initialize is: "backend", "local", "cdn" (awaiting each), "done"
  loads,              \* history: the model loads that have settled: [source, ok]
  lastDetect,         \* history: what the latest call made by DetectCall returned, and on which count
  detectCalls,        \* history: calls made by DetectCall, loaded or not
  \* ---- the phone's start-up (JoinPage effect, initWS, ws.onopen)
  cameraState,  \* getUserMedia: "requesting", "granted", "denied"
  mounted,      \* the JoinPage component is mounted (the effect's cleanup has not run)
  wsState,      \* wsRef.current: "none", "connecting", "open", "closed"
  pcRef,        \* pcRef.current: "null", "open", "closed"
  onopenPc,     \* where ws.onopen is: "idle", "createOffer", "setLocal" (awaiting each), "done", "failed"
  sentByPhone,  \* history: types of the messages the phone has sent, in order
  localCands,   \* history: local candidates pc.onicecandidate has reported
  status,       \* the status line of the page
  \* ---- the viewer's peer connection (DesktopPage ensurePeer, handleOffer, handleIceCandidate)
  peerConnectionRef,  \* peerConnectionRef.current: 0 = null, else the number of the connection
  pcCreated,          \* history: RTCPeerConnection objects ensurePeer has constructed
  peerHandlers,       \* handlers suspended at an await: set of [id, kind, pos, pc]
  appliedTo,          \* history: [id, kind, pc] for each offer or candidate handed to a connection
  peerMsgs,           \* history: offer and ice-candidate messages received
  answersSent,        \* history: answers sent
  \* ---- the three histories of a MetricsTracker, each sample standing for its number
  trackerWindows,  \* per history (fps, latency, bandwidth): the numbers of the samples it holds, oldest first
  trackerPushes,   \* history: per history, samples pushed so far
  \* ---- when updateBandwidth last appended a sample
  lastAppendAt,  \* history: clock reading at which the latest bandwidth sample was appended; -1 = none
  \* ---- the tracker's live latency window as render fills it
  latencyHistory,  \* MetricsTracker.latencyHistory: per sample, the detect call it timed and whether that call was skipped
  \* ---- the per-frame arrays of metricsStoreRef, next to e2eLatencyMs
  latencyMs,               \* metricsStoreRef.current.latencyMs
  detectionCountPerFrame,  \* metricsStoreRef.current.detectionCountPerFrame
  detectionsByFrame,       \* metricsStoreRef.current.detectionsByFrame: records {frame, objects}
  detectionLatency         \* detectionLatency.current, ms

pctVars == <<pctValues, pctP, pctOut, trkOut>>

overlayVars == <<canvas, lastRun, engineErrors>>

submitVars == <<lastSubmitted, arrivedInFlight, skippedOver>>

renderVars == <<isDetectionRunning, rafPending, videoDims, videoFrame, modelType,
                isLoaded, frameCount, inFlight, lastDetections, lastDetectionsFrame,
                appliedFrames, overlayVars, submitVars>>

relayVars == <<transport, registry, relayState, lock, joinCall, gone, lastMsg, outbox>>

taskVars == <<wire, nextSeq, recvCount, handling, peerPresent, peerChan>>

clockVars == <<now, clockSteps>>

frameVars == <<lastCaptureTs, e2eLatencyMs, frameIndex, processedFrames, ticks>>

bwVars == <<peerConnection, bytesReceived, bytesSent, bwPending, lastBandwidthCheck,
            lastBytesReceived, lastBytesSent, bandwidthHistory, currentBandwidth,
            samplingCalls>>

benchVars == <<benchRunning, durationSec, endAt, benchRaf, bwTimer, artifact, runs,
               ticksAtStart, bwAtStart, firstTickAt, artifacts>>

metricsVars == <<clockVars, frameVars, bwVars, benchVars>>

iceVars == <<toDeliver, remoteDescription, chained, pendingCandidates, flushing, added,
             rejected, queuedEver>>

playVars == <<trackEvents, metadataLoaded, playCalls, retryTimers, failedPlays,
              connectionStatus>>

fpsVars == <<fpsFrameCount, lastFpsTime, fpsHistory, currentFps, fpsFrameCountRef,
             lastFpsTimeRef, currentFpsRef, fpsSamples, fpsCalls, sampledFrames,
             sampledFramesRef>>

\* the parts after the first five
detectorVars == <<model, loadErrorText, initPc, loads, lastDetect, detectCalls>>

phoneVars == <<cameraState, mounted, wsState, pcRef, onopenPc, sentByPhone,
                localCands, status>>

viewerPeerVars == <<peerConnectionRef, pcCreated, peerHandlers, appliedTo,
                     peerMsgs, answersSent>>

windowVars == <<trackerWindows, trackerPushes>>

bwHistoryVars == <<lastAppendAt>>

latencyVars == <<latencyHistory>>

storeVars == <<latencyMs, detectionCountPerFrame, detectionsByFrame,
                detectionLatency>>

laterVars == <<iceVars, playVars, fpsVars, detectorVars,
                phoneVars,
                viewerPeerVars,
                windowVars,
                bwHistoryVars,
                latencyVars,
                storeVars>>

\* what the steps of one part leave alone: the variables of the other parts
otherThanPct == <<renderVars, relayVars, taskVars, metricsVars, laterVars>>

otherThanRender == <<pctVars, relayVars, taskVars, metricsVars, laterVars>>

otherThanRelay == <<pctVars, renderVars, taskVars, metricsVars, laterVars>>

otherThanTask == <<pctVars, renderVars, relayVars, metricsVars, laterVars>>

otherThanMetrics == <<pctVars, renderVars, relayVars, taskVars, laterVars>>

firstFive == <<pctVars, renderVars, relayVars, taskVars, metricsVars>>

otherThanIce == <<firstFive, playVars, fpsVars, detectorVars,
                   phoneVars,
                   viewerPeerVars,
                   windowVars,
                   bwHistoryVars,
                   latencyVars,
                   storeVars>>

otherThanPlay == <<firstFive, iceVars, fpsVars, detectorVars,
                    phoneVars,
                    viewerPeerVars,
                    windowVars,
                    bwHistoryVars,
                    latencyVars,
                    storeVars>>

otherThanFps == <<firstFive, iceVars, playVars, detectorVars,
                   phoneVars,
                   viewerPeerVars,
                   windowVars,
                   bwHistoryVars,
                   latencyVars,
                   storeVars>>

otherThanPhone == <<firstFive, iceVars, playVars, fpsVars, detectorVars,
                     viewerPeerVars,
                     windowVars,
                     bwHistoryVars,
                     latencyVars,
                     storeVars>>

otherThanViewerPeer == <<firstFive, iceVars, playVars, fpsVars, detectorVars, phoneVars,
                          windowVars,
                          bwHistoryVars,
                          latencyVars,
                          storeVars>>

otherThanWindows == <<firstFive, iceVars, playVars, fpsVars, detectorVars, phoneVars,
                      viewerPeerVars,
                       bwHistoryVars,
                       latencyVars,
                       storeVars>>

\* what the metrics block of render leaves alone outside the metrics part
otherThanStore == <<pctVars, renderVars, relayVars, taskVars, iceVars, playVars, fpsVars,
                   detectorVars, phoneVars, viewerPeerVars, windowVars, bwHistoryVars,
                   latencyVars>>

\* what a render run that got its detect result leaves alone outside the render loop
otherThanRenderLatency == <<pctVars, relayVars, taskVars, metricsVars, iceVars, playVars, fpsVars,
                           detectorVars, phoneVars, viewerPeerVars, windowVars, bwHistoryVars,
                             storeVars>>

\* what a resumed updateBandwidth call leaves alone outside the metrics part
otherThanBwResolve == <<pctVars, renderVars, relayVars, taskVars, iceVars, playVars, fpsVars,
                        detectorVars, phoneVars, viewerPeerVars, windowVars,
                         latencyVars,
                         storeVars>>

\* what the detector's own steps leave alone outside the render loop
otherThanDetector == <<pctVars, relayVars, taskVars, metricsVars, iceVars, playVars, fpsVars,
                        phoneVars,
                        viewerPeerVars,
                        windowVars,
                        bwHistoryVars,
                        latencyVars,
                        storeVars>>

\* what startBench leaves alone outside the metrics part: all but the fps store
otherThanBench == <<pctVars, renderVars, relayVars, taskVars, iceVars, playVars, detectorVars,
                    fpsFrameCount, lastFpsTime, fpsHistory, currentFps, fpsFrameCountRef,
                    lastFpsTimeRef, currentFpsRef, fpsCalls, sampledFrames,
                    sampledFramesRef,
                     phoneVars,
                     viewerPeerVars,
                     windowVars,
                     bwHistoryVars,
                     latencyVars>>

(***************************************************************************)
(* Percentile helpers.  JavaScript numbers are modelled exactly: a value   *)
(* x is carried as the integer 100*x ("hundredths"), which is exact for    *)
(* integer samples and integer p because the interpolation weight is a     *)
(* multiple of 1/100.                                                      *)
(***************************************************************************)

\* Array.prototype.sort((a,b)=>a-b) on a copy: ascending insertion sort
RECURSIVE Insert(_, _)
Insert(x, s) ==
  IF s = <<>> THEN <<x>>
  ELSE IF x <= Head(s) THEN <<x>> \o s
  ELSE <<Head(s)>> \o Insert(x, Tail(s))

RECURSIVE SortAsc(_)
SortAsc(s) == IF s = <<>> THEN <<>> ELSE Insert(Head(s), SortAsc(Tail(s)))

\* the upper of the two bracketing ranks, no interpolation
calculatePercentile_UpperRank(sortedValues, p) ==
  IF Len(sortedValues) = 0 THEN 0
  ELSE 100 * sortedValues[((p * (Len(sortedValues) - 1) + 99) \div 100) + 1]

\* MetricsTracker.calculatePercentile(sortedValues, percentile); arrays are
\* 0-based in the source, 1-based here
calculatePercentile(sortedValues, p) ==
  IF Len(sortedValues) = 0 THEN 0
  ELSE LET index100 == p * (Len(sortedValues) - 1)      \* 100 * index
           lower    == index100 \div 100                 \* Math.floor(index)
           upper    == (index100 + 99) \div 100          \* Math.ceil(index)
           weight   == index100 - 100 * lower            \* 100 * (index - lower)
       IN IF lower = upper THEN 100 * sortedValues[lower + 1]
          ELSE sortedValues[lower + 1] * (100 - weight)
               + sortedValues[upper + 1] * weight

\* nearest-rank variant (no interpolation between the bracketing ranks)
percentile_NearestRank(values, p) ==
  IF Len(values) = 0 THEN 0
  ELSE LET sorted == SortAsc(values)
       IN 100 * sorted[((p * (Len(sorted) - 1)) \div 100) + 1]

\* DesktopPage percentile(values, p): sorts a copy, then interpolates
percentile(values, p) ==
  IF Len(values) = 0 THEN 0
  ELSE LET sorted == SortAsc(values)
           idx100 == p * (Len(sorted) - 1)
           lo     == idx100 \div 100
           hi     == (idx100 + 99) \div 100
           w      == idx100 - 100 * lo
       IN IF lo = hi THEN 100 * sorted[lo + 1]
          ELSE sorted[lo + 1] * (100 - w) + sorted[hi + 1] * w

Windows == UNION {[1..n -> SampleValues] : n \in 0..MaxWin}

PctInit ==
  /\ pctValues = <<>>
  /\ pctP = 50
  /\ pctOut = -1
  /\ trkOut = -1

PctIdle == pctValues = <<>> /\ pctP = 50 /\ pctOut = -1 /\ trkOut = -1

\* a caller picks a window and a percentile
PctInput ==
  /\ PctIdle
  /\ \E v \in Windows, p \in Percents :
       /\ pctValues' = v
       /\ pctP' = p
       /\ pctOut' = -1
       /\ trkOut' = -1
  /\ UNCHANGED otherThanPct

\* exportMetrics / benchTick: percentile(store.e2eLatencyMs, p)
PctCompute ==
  /\ pctOut = -1
  /\ pctOut' = percentile(pctValues, pctP)
  /\ UNCHANGED <<pctValues, pctP, trkOut>>
  /\ UNCHANGED otherThanPct

\* addLatency: sorts a copy of the history, then calculatePercentile(sorted, p)
TrackerCompute ==
  /\ trkOut = -1
  /\ trkOut' = calculatePercentile(SortAsc(pctValues), pctP)
  /\ UNCHANGED <<pctValues, pctP, pctOut>>
  /\ UNCHANGED otherThanPct

\* both helpers have returned; the next call starts from scratch
PctReturn ==
  /\ pctOut # -1
  /\ trkOut # -1
  /\ pctValues' = <<>>
  /\ pctP' = 50
  /\ pctOut' = -1
  /\ trkOut' = -1
  /\ UNCHANGED otherThanPct

PctNext == PctInput \/ PctCompute \/ TrackerCompute \/ PctReturn


(***************************************************************************)
(* Desktop render loop (DesktopPage.jsx render) and ObjectDetector.detect. *)
(* The overlay effect calls render() once; every run of render ends by     *)
(* handing itself to requestAnimationFrame.  render is an async function:  *)
(* at "await detector.detect(...)" it is suspended until the promise       *)
(* resolves.  A detect call that returns without awaiting inference        *)
(* (skipped frame) resolves in the same turn of the event loop, so that    *)
(* run of render is one step; a call that runs inference is two steps.     *)
(***************************************************************************)
\* no call of detect yet
NoDetect == [detections |-> <<>>, error |-> "none", skipped |-> FALSE, ran |-> FALSE,
             countBefore |-> 0]

RenderInit ==
  /\ isDetectionRunning = TRUE
  /\ rafPending = 1                  \* the effect's direct call of render()
  /\ videoDims = FALSE
  /\ videoFrame = 0
  /\ modelType = "coco-ssd"
  /\ isLoaded = FALSE
  /\ frameCount = 0
  /\ inFlight = {}
  /\ lastDetections = <<>>
  /\ lastDetectionsFrame = 0
  /\ appliedFrames = <<>>
  /\ canvas = [boxes |-> <<>>, frame |-> 0]
  /\ lastRun = [kind |-> "none", frame |-> 0]
  /\ engineErrors = 0
  /\ lastSubmitted = 0
  /\ arrivedInFlight = 0
  /\ skippedOver = 0
  /\ model = "null"
  /\ loadErrorText = "null"
  /\ initPc = "backend"       \* the page's effect has called initialize()
  /\ loads = <<>>
  /\ lastDetect = NoDetect
  /\ detectCalls = 0

\* render, last statement: if (isDetectionRunning.current) requestAnimationFrame(render)
RenderTail(running, raf) == IF running THEN raf + 1 ELSE raf

\* the await dropped (fire and forget): the run would go on to
\* requestAnimationFrame while the detect call is unresolved
RafAtAwait_NoAwait(raf) == raf + 1

\* render reaching "await detector.detect(...)" with inference started: the
\* function is suspended there and schedules nothing until it resumes
RafAtAwait(raf) == raf

\* the frames are kept in a backlog and annotated in arrival order: the call
\* takes the frame after the one annotated last
frameForDetect_Backlog(current, last) ==
  IF last = 0 \/ last + 1 > current THEN current ELSE last + 1

\* render, "detector.detect(video, 300, 300, 0.8)": the call is handed the
\* video element, and inference reads the frame the element shows then
\* (tf.browser.fromPixels(videoElement), this.model.detect(videoElement));
\* nothing keeps the frames that were shown in between
frameForDetect(current, last) == current

\* detect, lines 280-286: the call whose count is a multiple of
\* detectionInterval runs inference, the others are skipped
RunsInference(count) == count % detectionInterval = 0

\* what inference can come to once it runs: a list of detections, or a throw
Inferences ==
  {[detections |-> d, error |-> "null"] : d \in DetResults}
    \cup {[detections |-> <<>>, error |-> "engine"]}

\* the message is a fixed text, whatever initialize stored
errorOf_Generic(err) == "not loaded"

\* detect, "this.loadError || 'Model not loaded - check console for details'"
errorOf(err) == IF err # "null" THEN err ELSE "not loaded"

\* the call is counted before the model is looked at
detect_CountFirst(loaded, mdl, err, count, inference) ==
  IF ~loaded \/ mdl = "null"
  THEN [detections |-> <<>>, error |-> errorOf(err), skipped |-> FALSE,
        ran |-> FALSE, frameCount |-> count + 1]
  ELSE IF ~RunsInference(count + 1)
  THEN [detections |-> <<>>, error |-> "null", skipped |-> TRUE,
        ran |-> FALSE, frameCount |-> count + 1]
  ELSE [detections |-> inference.detections, error |-> inference.error,
        skipped |-> FALSE, ran |-> TRUE, frameCount |-> count + 1]

\* ObjectDetector.detect on a detector with the given isLoaded, model,
\* loadError and frameCount: what it resolves with, whether inference ran,
\* and the frameCount it leaves; inference is what the model comes to if run
detect(loaded, mdl, err, count, inference) ==
  IF ~loaded \/ mdl = "null"
  THEN [detections |-> <<>>, error |-> errorOf(err), skipped |-> FALSE,
        ran |-> FALSE, frameCount |-> count]
  ELSE IF ~RunsInference(count + 1)
  THEN [detections |-> <<>>, error |-> "null", skipped |-> TRUE,
        ran |-> FALSE, frameCount |-> count + 1]
  ELSE [detections |-> inference.detections, error |-> inference.error,
        skipped |-> FALSE, ran |-> TRUE, frameCount |-> count + 1]

\* render, "if (detections.length > 0) lastDetections.current = detections"
StoreDetections(old, detections) == IF Len(detections) > 0 THEN detections ELSE old

\* a failed detection wipes the stored list
AfterDetect_ClearOnError(old, result) ==
  IF result.skipped THEN old
  ELSE IF result.error THEN <<>>
  ELSE StoreDetections(old, result.detections)

\* render, the branches on the value detect resolved with: skipped and
\* failed calls leave lastDetections.current alone
AfterDetect(old, result) ==
  IF result.skipped THEN old
  ELSE IF result.error THEN old
  ELSE StoreDetections(old, result.detections)

\* detector.loadError is set (initialize stored a message)
loadError == loadErrorText # "null"

\* drawDetections: clears the canvas, then draws the load-error banner, or
\* one box per detection
drawDetections(loaded, failed, detections) ==
  IF ~loaded /\ failed THEN <<>> ELSE detections

\* the overlay is redrawn only by runs whose detect call returned a result
Overlay_OnlyOnResult(kind, old, drawn) ==
  IF kind \in {"stored", "empty"} THEN drawn ELSE old

\* render, "Always draw latest detections (even if not running detection this
\* frame)": the call of drawDetections after the try block is unconditional
Overlay(kind, old, drawn) == drawn

\* the rest of a run of render that had a video size, from drawDetections on:
\* kind says how the run got there, detections is lastDetections.current
DrawTail(kind, detections) ==
  /\ canvas' = Overlay(kind, canvas,
                       [boxes |-> drawDetections(isLoaded, loadError, detections),
                        frame |-> videoFrame])
  /\ lastRun' = [kind |-> kind, frame |-> videoFrame]

\* what the steps of initialize and of a direct call of detect leave alone
DetectorFrame ==
  /\ UNCHANGED <<isDetectionRunning, rafPending, videoDims, videoFrame,
                 inFlight, lastDetections, lastDetectionsFrame, appliedFrames>>
  /\ UNCHANGED overlayVars
  /\ UNCHANGED submitVars
  /\ UNCHANGED otherThanDetector

\* initialize: "await tf.setBackend('webgl'); await tf.ready()" resolve
BackendReady ==
  /\ initPc = "backend"
  /\ initPc' = "local"
  /\ UNCHANGED <<modelType, isLoaded, frameCount, model, loadErrorText, loads, lastDetect,
                 detectCalls>>
  /\ DetectorFrame

\* initialize, outer catch: the backend could not be set up
BackendFailed ==
  /\ initPc = "backend"
  /\ loadErrorText' = "backend"
  /\ isLoaded' = FALSE
  /\ initPc' = "done"
  /\ UNCHANGED <<modelType, frameCount, model, loads, lastDetect, detectCalls>>
  /\ DetectorFrame

\* initialize: tf.loadGraphModel(localModelUrl) resolves
LocalLoaded ==
  /\ initPc = "local"
  /\ model' = "graph"
  /\ modelType' = "ssd_mobilenet_v2_local"
  /\ isLoaded' = TRUE
  /\ loadErrorText' = "null"
  /\ loads' = Append(loads, [source |-> "local", ok |-> TRUE])
  /\ initPc' = "done"
  /\ UNCHANGED <<frameCount, lastDetect, detectCalls>>
  /\ DetectorFrame

\* initialize, catch (localModelError): on to cocoSsd.load
LocalFailed ==
  /\ initPc = "local"
  /\ loads' = Append(loads, [source |-> "local", ok |-> FALSE])
  /\ initPc' = "cdn"
  /\ UNCHANGED <<modelType, isLoaded, frameCount, model, loadErrorText, lastDetect,
                 detectCalls>>
  /\ DetectorFrame

\* initialize: cocoSsd.load(...) resolves
CdnLoaded ==
  /\ initPc = "cdn"
  /\ model' = "coco"
  /\ modelType' = "ssd_mobilenet_v2_cdn"
  /\ isLoaded' = TRUE
  /\ loadErrorText' = "null"
  /\ loads' = Append(loads, [source |-> "cdn", ok |-> TRUE])
  /\ initPc' = "done"
  /\ UNCHANGED <<frameCount, lastDetect, detectCalls>>
  /\ DetectorFrame

\* initialize, catch (cdnModelError)
CdnFailed ==
  /\ initPc = "cdn"
  /\ modelType' = "failed"
  /\ isLoaded' = FALSE
  /\ loadErrorText' = "all"
  /\ loads' = Append(loads, [source |-> "cdn", ok |-> FALSE])
  /\ initPc' = "done"
  /\ UNCHANGED <<frameCount, model, lastDetect, detectCalls>>
  /\ DetectorFrame

\* ObjectDetector.initialize, called once by the page's effect: its steps
Initialize ==
  \/ BackendReady
  \/ BackendFailed
  \/ LocalLoaded
  \/ LocalFailed
  \/ CdnLoaded
  \/ CdnFailed

\* the remote track's metadata arrives: the video element knows its size
VideoMetadata ==
  /\ ~videoDims
  /\ videoDims' = TRUE
  /\ UNCHANGED <<isDetectionRunning, rafPending, videoFrame, modelType, isLoaded,
                 frameCount, inFlight, lastDetections, lastDetectionsFrame, appliedFrames>>
  /\ UNCHANGED overlayVars
  /\ UNCHANGED submitVars
  /\ UNCHANGED otherThanRender

\* the transport delivers the next decoded frame; the video element shows it
\* (readyState >= 2 from the first frame on)
FrameArrives ==
  /\ videoDims
  /\ videoFrame < MaxFrames
  /\ videoFrame' = videoFrame + 1
  /\ arrivedInFlight' = IF inFlight # {} THEN arrivedInFlight + 1 ELSE arrivedInFlight
  /\ UNCHANGED <<isDetectionRunning, rafPending, videoDims, modelType, isLoaded,
                 frameCount, inFlight, lastDetections, lastDetectionsFrame, appliedFrames>>
  /\ UNCHANGED overlayVars
  /\ UNCHANGED <<lastSubmitted, skippedOver>>
  /\ UNCHANGED otherThanRender

\* effect cleanup: isDetectionRunning.current = false
Unmount ==
  /\ isDetectionRunning
  /\ isDetectionRunning' = FALSE
  /\ UNCHANGED <<rafPending, videoDims, videoFrame, modelType, isLoaded,
                 frameCount, inFlight, lastDetections, lastDetectionsFrame, appliedFrames>>
  /\ UNCHANGED overlayVars
  /\ UNCHANGED submitVars
  /\ UNCHANGED otherThanRender

\* render: "if (!isDetectionRunning.current) return"
RenderStopped ==
  /\ rafPending > 0
  /\ ~isDetectionRunning
  /\ rafPending' = rafPending - 1
  /\ UNCHANGED <<isDetectionRunning, videoDims, videoFrame, modelType, isLoaded,
                 frameCount, inFlight, lastDetections, lastDetectionsFrame, appliedFrames>>
  /\ UNCHANGED overlayVars
  /\ UNCHANGED submitVars
  /\ UNCHANGED otherThanRender

\* render with no detect call: the video has no size yet, or no frame data
\* (readyState < 2), or the model is not loaded
RenderNoDetect ==
  /\ rafPending > 0
  /\ isDetectionRunning
  /\ ~videoDims \/ videoFrame = 0 \/ ~isLoaded
  /\ rafPending' = RenderTail(isDetectionRunning, rafPending - 1)
  /\ IF videoDims
     THEN DrawTail("nodetect", lastDetections) /\ UNCHANGED engineErrors
     ELSE UNCHANGED overlayVars
  /\ UNCHANGED <<isDetectionRunning, videoDims, videoFrame, modelType, isLoaded,
                 frameCount, inFlight, lastDetections, lastDetectionsFrame, appliedFrames>>
  /\ UNCHANGED submitVars
  /\ UNCHANGED otherThanRender

\* metricsTracker.addLatency(endToEndLatency): push, and shift once the window
\* holds more than maxSamples
addLatency(history, sample) ==
  IF Len(history) + 1 > maxSamples THEN Tail(Append(history, sample)) ELSE Append(history, sample)

\* render whose detect call is skipped by frame thinning: detect returns
\* {detections: [], skipped: true}; lastDetections is left alone
RenderSkipped ==
  /\ rafPending > 0
  /\ isDetectionRunning
  /\ videoDims /\ videoFrame > 0 /\ isLoaded
  /\ frameCount < MaxCalls
  /\ ~RunsInference(frameCount + 1)
  /\ frameCount' = frameCount + 1
  /\ rafPending' = RenderTail(isDetectionRunning, rafPending - 1)
  /\ DrawTail("skipped", lastDetections)
  /\ UNCHANGED engineErrors
  /\ latencyHistory' = addLatency(latencyHistory, [call |-> frameCount + 1, skipped |-> TRUE])
  /\ UNCHANGED <<isDetectionRunning, videoDims, videoFrame, modelType, isLoaded,
                 inFlight, lastDetections, lastDetectionsFrame, appliedFrames>>
  /\ UNCHANGED submitVars
  /\ UNCHANGED otherThanRenderLatency

\* render whose detect call starts inference on the visible frame and
\* suspends at the await
RenderSubmit ==
  /\ rafPending > 0
  /\ isDetectionRunning
  /\ videoDims /\ videoFrame > 0 /\ isLoaded
  /\ frameCount < MaxCalls
  /\ RunsInference(frameCount + 1)
  /\ frameCount' = frameCount + 1
  /\ lastSubmitted' = frameForDetect(videoFrame, lastSubmitted)
  /\ inFlight' = inFlight \cup {[call |-> frameCount + 1, frame |-> lastSubmitted']}
  /\ skippedOver' = arrivedInFlight
  /\ arrivedInFlight' = 0
  /\ rafPending' = RafAtAwait(rafPending - 1)
  /\ UNCHANGED <<isDetectionRunning, videoDims, videoFrame, modelType, isLoaded,
                 lastDetections, lastDetectionsFrame, appliedFrames>>
  /\ UNCHANGED overlayVars
  /\ UNCHANGED otherThanRender

\* inference returns detections: detect resolves, render resumes, stores a
\* non-empty list, draws, and schedules the next run
InferenceDone ==
  \E c \in inFlight, detections \in DetResults :
    /\ inFlight' = inFlight \ {c}
    /\ lastDetections' = AfterDetect(lastDetections,
                                     [detections |-> detections, error |-> FALSE,
                                      skipped |-> FALSE])
    /\ DrawTail(IF Len(detections) > 0 THEN "stored" ELSE "empty", lastDetections')
    /\ UNCHANGED engineErrors
    /\ lastDetectionsFrame' = IF lastDetections' = detections /\ Len(detections) > 0
                              THEN c.frame ELSE lastDetectionsFrame
    /\ appliedFrames' = IF Len(detections) > 0 THEN Append(appliedFrames, c.frame)
                        ELSE appliedFrames
    /\ rafPending' = RenderTail(isDetectionRunning, rafPending)
    /\ latencyHistory' = addLatency(latencyHistory, [call |-> c.call, skipped |-> FALSE])
    /\ UNCHANGED <<isDetectionRunning, videoDims, videoFrame, modelType, isLoaded,
                   frameCount>>
    /\ UNCHANGED submitVars
    /\ UNCHANGED otherThanRenderLatency

\* inference throws: detect catches and resolves with {detections: [], error};
\* render resumes, reports the error, draws the old list, schedules the next run
InferenceFailed ==
  \E c \in inFlight :
    /\ inFlight' = inFlight \ {c}
    /\ lastDetections' = AfterDetect(lastDetections,
                                     [detections |-> <<>>, error |-> TRUE,
                                      skipped |-> FALSE])
    /\ DrawTail("error", lastDetections')
    /\ engineErrors' = engineErrors + 1
    /\ rafPending' = RenderTail(isDetectionRunning, rafPending)
    /\ latencyHistory' = addLatency(latencyHistory, [call |-> c.call, skipped |-> FALSE])
    /\ UNCHANGED <<isDetectionRunning, videoDims, videoFrame, modelType, isLoaded,
                   frameCount, lastDetectionsFrame, appliedFrames>>
    /\ UNCHANGED submitVars
    /\ UNCHANGED otherThanRenderLatency

\* a call of detector.detect, from its start to the value it resolves with,
\* as far as the detector is concerned: the detector is an exported object
\* and detect checks for the model itself (render calls it after looking at
\* isLoaded)
DetectCall ==
  /\ frameCount < MaxCalls
  /\ detectCalls < MaxDetectCalls
  /\ detectCalls' = detectCalls + 1
  /\ \E inference \in Inferences :
       LET r == detect(isLoaded, model, loadErrorText, frameCount, inference)
       IN /\ frameCount' = r.frameCount
          /\ lastDetect' = [detections |-> r.detections, error |-> r.error,
                            skipped |-> r.skipped, ran |-> r.ran,
                            countBefore |-> frameCount]
  /\ UNCHANGED <<modelType, isLoaded, model, loadErrorText, initPc, loads>>
  /\ DetectorFrame

DetectNext ==
  \/ Initialize
  \/ DetectCall

RenderNext ==
  \/ Initialize
  \/ VideoMetadata
  \/ FrameArrives
  \/ Unmount
  \/ RenderStopped
  \/ RenderNoDetect
  \/ RenderSkipped
  \/ RenderSubmit
  \/ InferenceDone
  \/ InferenceFailed


(***************************************************************************)
(* Signaling relay and Session Registry.  The server (server/main.py) is   *)
(* not among the sources; this part follows spec.md: 3 (data model),       *)
(* 4.1 (registry contract and policy), 4.2 (relay state machine, routing,  *)
(* failure semantics) and 5 (one task per connection, registry mutation    *)
(* serialized per session).  The clients (DesktopPage.jsx, JoinPage.jsx)   *)
(* send join once, when their WebSocket opens, and address every message   *)
(* to the room of their page.                                              *)
(*                                                                         *)
(* A register call takes the session (lock), reads the slot, decides, then *)
(* writes and releases: JoinReceive, JoinDecide, JoinCommit.  Forwarding   *)
(* and deregistration are single steps taken while the session is free.    *)
(* lastMsg and outbox describe the relay's latest step: the negotiation    *)
(* message it took in and the messages it wrote to channels.  The idle     *)
(* timeout is not modelled: no step tears a session down while a           *)
(* participant is registered.                                              *)
(***************************************************************************)
NoCall ==
  [pc |-> "none", sess |-> "none", role |-> "none", decision |-> "none",
   emptyAtCall |-> FALSE, concurrent |-> {}, liveOccupant |-> FALSE]

NoMsg == [type |-> "none", payload |-> "none", from |-> 0, sess |-> "none"]

RelayInit ==
  /\ transport = [c \in Conns |-> "idle"]
  /\ registry = {}
  /\ relayState = [s \in Sessions |-> "Empty"]
  /\ lock = [s \in Sessions |-> 0]
  /\ joinCall = [c \in Conns |-> NoCall]
  /\ gone = {}
  /\ lastMsg = NoMsg
  /\ outbox = {}

\* a connection whose transport is open
Live(c) == transport[c] = "open"

\* registrations in the slot (s, role)
Occupants(s, role) == {r \in registry : r.sess = s /\ r.role = role}

\* lookup(sessionId): the session's registrations
lookup(s) == {r \in registry : r.sess = s}

\* early-admission variant: also connections whose join for s is still being
\* processed
peersOf_Pending(s, c) ==
  {r.conn : r \in {x \in lookup(s) : x.conn # c}}
    \cup {d \in Conns \ {c} : joinCall[d].sess = s /\ joinCall[d].pc \in {"waiting", "decided"}}

\* peersOf(sessionId, excluding = connection): the other participant of the
\* sender's session, if any; nobody when the sender is not in that session
peersOf(s, c) ==
  IF \E r \in lookup(s) : r.conn = c
  THEN {r.conn : r \in {x \in lookup(s) : x.conn # c}}
  ELSE {}

\* no mutual exclusion: the session is always taken to be free
SessionFree_NoLock(s) == TRUE

\* the session's point of serialization is free
SessionFree(s) == lock[s] = 0

\* last writer wins: the slot is handed over whoever holds it
registerOutcome_Overwrite(occupants) == "accepted"

\* register policy: SlotOccupied when a live connection holds the slot,
\* accepted when it is empty or its occupant is dead
registerOutcome(occupants) ==
  IF \E r \in occupants : Live(r.conn) THEN "SlotOccupied" ELSE "accepted"

\* the dead occupant is left in place next to the new one
replacedBy_Keep(occupants) == {}

\* registrations an accepted register call removes (the dead occupant)
replacedBy(occupants) == occupants

\* deregistration by role: whoever holds the slot of c's role is removed
registrationsOf_ByRole(c) ==
  {r \in registry : r.sess = joinCall[c].sess /\ r.role = joinCall[c].role}

\* deregister(sessionId, connection): the registrations of that connection
registrationsOf(c) == {r \in registry : r.conn = c}

\* relay state after an accepted join
AfterJoin(state, replaced) ==
  IF replaced THEN state
  ELSE IF state = "Empty" THEN "AwaitingPeer"
  ELSE "Paired"

\* the session is emptied whenever a participant goes
AfterLeave_Drop(state) == "Empty"

\* relay state after a participant was removed
AfterLeave(state) ==
  IF state = "Paired" THEN "AwaitingPeer" ELSE "Empty"

\* msg written to the channels of the connections tos
emit(tos, msg) == {[to |-> t, msg |-> msg] : t \in tos}

\* the notification goes to the joining connection instead
notifyTarget_Joiner(s, c) == {c}

\* whom peer-joined is addressed to: the participant that joined earlier
notifyTarget(s, c) == {r.conn : r \in {x \in lookup(s) : x.conn # c}}

\* the page behind a connection: odd ids are phones (producers), even ids
\* desktops (viewers)
roleOf(c) == IF c % 2 = 1 THEN "producer" ELSE "viewer"

\* the room a page may be opened for: connections 1 and 2 are the phone and
\* the desktop of s1, later ones reconnect to s1 or belong to s2
roomsOf(c) == IF c <= 2 THEN {"s1"} ELSE Sessions

\* the transport of a connection closes (client closed it, or it was lost)
TransportClose(c) ==
  /\ transport[c] = "open"
  /\ transport' = [transport EXCEPT ![c] = "closed"]
  /\ lastMsg' = NoMsg
  /\ outbox' = {}
  /\ UNCHANGED <<registry, relayState, lock, joinCall, gone>>
  /\ UNCHANGED otherThanRelay

\* a client opens its WebSocket and sends join (ws.onopen); the relay
\* receives join(s, role): the register call starts and waits for the session
JoinReceive(c, s) ==
  /\ transport[c] = "idle"
  /\ s \in roomsOf(c)
  /\ transport' = [transport EXCEPT ![c] = "open"]
  /\ joinCall' = [joinCall EXCEPT ![c] =
       [pc |-> "waiting", sess |-> s, role |-> roleOf(c), decision |-> "none",
        emptyAtCall |-> (Occupants(s, roleOf(c)) = {}),
        concurrent |-> {d \in Conns \ {c} :
                          /\ joinCall[d].pc \in {"waiting", "decided"}
                          /\ joinCall[d].sess = s
                          /\ joinCall[d].role = roleOf(c)},
        liveOccupant |-> FALSE]]
  /\ lastMsg' = NoMsg
  /\ outbox' = {}
  /\ UNCHANGED <<registry, relayState, lock, gone>>
  /\ UNCHANGED otherThanRelay

\* register, first half: take the session, read the slot, decide
JoinDecide(c) ==
  /\ joinCall[c].pc = "waiting"
  /\ SessionFree(joinCall[c].sess)
  /\ LET s == joinCall[c].sess
         occ == Occupants(s, joinCall[c].role)
     IN /\ lock' = [lock EXCEPT ![s] = c]
        /\ joinCall' = [joinCall EXCEPT ![c].pc = "decided",
                                        ![c].decision = registerOutcome(occ),
                                        ![c].liveOccupant = (\E r \in occ : Live(r.conn))]
  /\ lastMsg' = NoMsg
  /\ outbox' = {}
  /\ UNCHANGED <<transport, registry, relayState, gone>>
  /\ UNCHANGED otherThanRelay

\* register, second half: write the slot, move the session's state, notify
\* the earlier participant when the session becomes Paired, release
JoinCommit(c) ==
  /\ joinCall[c].pc = "decided"
  /\ LET s == joinCall[c].sess
         role == joinCall[c].role
         occ == Occupants(s, role)
         ok == joinCall[c].decision = "accepted"
         next == AfterJoin(relayState[s], replacedBy(occ) # {})
     IN /\ registry' = IF ok
                       THEN (registry \ replacedBy(occ)) \cup {[sess |-> s, role |-> role, conn |-> c]}
                       ELSE registry
        /\ relayState' = IF ok THEN [relayState EXCEPT ![s] = next] ELSE relayState
        /\ outbox' = IF ok /\ relayState[s] = "AwaitingPeer" /\ next = "Paired"
                     THEN emit(notifyTarget(s, c),
                               [type |-> "peer-joined", payload |-> "none",
                                from |-> c, sess |-> s])
                     ELSE {}
        /\ lock' = [lock EXCEPT ![s] = 0]
        /\ joinCall' = [joinCall EXCEPT ![c].pc = "done"]
  /\ lastMsg' = NoMsg
  /\ UNCHANGED <<transport, gone>>
  /\ UNCHANGED otherThanRelay

\* removing c from its session: the slot is freed, the state steps back and
\* the remaining participant is told peer-left
Deregister(c) ==
  LET mine == registrationsOf(c)
      s == joinCall[c].sess
  IN /\ registry' = registry \ mine
     /\ relayState' = IF mine # {} THEN [relayState EXCEPT ![s] = AfterLeave(@)]
                      ELSE relayState
     /\ outbox' = IF mine # {}
                  THEN emit({r.conn : r \in lookup(s) \ mine},
                            [type |-> "peer-left", payload |-> "none",
                             from |-> c, sess |-> s])
                  ELSE {}
     /\ lastMsg' = NoMsg
     /\ gone' = gone \cup {c}

\* the connection's task sees the transport closed: immediate deregistration
CloseHandle(c) ==
  /\ transport[c] = "closed"
  /\ c \notin gone
  /\ joinCall[c].pc = "done"
  /\ SessionFree(joinCall[c].sess)
  /\ Deregister(c)
  /\ UNCHANGED <<transport, lock, joinCall>>
  /\ UNCHANGED otherThanRelay

\* the relay receives leave from a registered participant
Leave(c) ==
  /\ Live(c)
  /\ c \notin gone
  /\ joinCall[c].pc = "done"
  /\ registrationsOf(c) # {}
  /\ SessionFree(joinCall[c].sess)
  /\ Deregister(c)
  /\ UNCHANGED <<transport, lock, joinCall>>
  /\ UNCHANGED otherThanRelay

\* the relay rewrites the payload before passing the message on
forwarded_Rewritten(msg) == [msg EXCEPT !.payload = "sdpA"]

\* what is passed on: the message as received
forwarded(msg) == msg

\* the relay receives offer / answer / ice-candidate from c, addressed to
\* c's room: forwarded verbatim to the peer, dropped when there is none
Forward(c, kind) ==
  /\ Live(c)
  /\ c \notin gone
  /\ joinCall[c].pc = "done"
  /\ SessionFree(joinCall[c].sess)
  /\ LET s == joinCall[c].sess
         msg == [type |-> kind.type, payload |-> kind.payload, from |-> c, sess |-> s]
     IN /\ lastMsg' = msg
        /\ outbox' = emit(peersOf(s, c), forwarded(msg))
  /\ UNCHANGED <<transport, registry, relayState, lock, joinCall, gone>>
  /\ UNCHANGED otherThanRelay

\* the error report also goes to the other participant of the session
errorTarget_Session(s, c) == {c} \cup {r.conn : r \in lookup(s)}

\* whom a MalformedMessage error is reported to: the sender only
errorTarget(s, c) == {c}

\* the relay receives a message from c that does not parse as the tagged
\* union: dropped, the error reported, nothing else changes
Malformed(c) ==
  /\ Live(c)
  /\ c \notin gone
  /\ joinCall[c].pc = "done"
  /\ LET s == joinCall[c].sess
     IN /\ lastMsg' = [type |-> "malformed", payload |-> "none", from |-> c, sess |-> s]
        /\ outbox' = emit(errorTarget(s, c),
                          [type |-> "error", payload |-> "MalformedMessage",
                           from |-> c, sess |-> s])
  /\ UNCHANGED <<transport, registry, relayState, lock, joinCall, gone>>
  /\ UNCHANGED otherThanRelay

RelayNext ==
  \/ \E c \in Conns : TransportClose(c)
  \/ \E c \in Conns, s \in Sessions : JoinReceive(c, s)
  \/ \E c \in Conns : JoinDecide(c)
  \/ \E c \in Conns : JoinCommit(c)
  \/ \E c \in Conns : CloseHandle(c)
  \/ \E c \in Conns : Leave(c)
  \/ \E c \in Conns, kind \in MsgKinds : Forward(c, kind)
  \/ \E c \in Conns : Malformed(c)

(***************************************************************************)
(* One connection's task in the relay, message by message (spec.md 4.2     *)
(* ordering guarantee, 5: one lightweight task per participant             *)
(* connection).  Forward above is the task handling one message; here the  *)
(* handling is opened up: the participant's messages queue on its channel, *)
(* the task reads the oldest, routes it, and writes it to the peer (or     *)
(* drops it when there is none) before it reads the next.  The peer may    *)
(* leave and join in between.                                              *)
(***************************************************************************)
TaskInit ==
  /\ wire = <<>>
  /\ nextSeq = 1
  /\ recvCount = 0
  /\ handling = {}
  /\ peerPresent = TRUE
  /\ peerChan = <<>>

\* a handler is spawned per message: the task reads on while earlier
\* messages are still being routed
TaskReady_Spawn(pending) == TRUE

\* the task is sequential: it reads the next message when the previous one
\* has been written or dropped
TaskReady(pending) == pending = {}

\* the participant sends its next offer / answer / ice-candidate
ClientSend ==
  /\ nextSeq <= MaxSeq
  /\ wire' = Append(wire, nextSeq)
  /\ nextSeq' = nextSeq + 1
  /\ UNCHANGED <<recvCount, handling, peerPresent, peerChan>>
  /\ UNCHANGED otherThanTask

\* the task reads the oldest unread message of its channel
TaskTake ==
  /\ wire # <<>>
  /\ TaskReady(handling)
  /\ handling' = handling \cup {[seq |-> Head(wire), rcv |-> recvCount + 1]}
  /\ recvCount' = recvCount + 1
  /\ wire' = Tail(wire)
  /\ UNCHANGED <<nextSeq, peerPresent, peerChan>>
  /\ UNCHANGED otherThanTask

\* routing done: the message is written to the peer's channel, or dropped
\* when the session has no peer
TaskWrite ==
  \E m \in handling :
    /\ handling' = handling \ {m}
    /\ peerChan' = IF peerPresent THEN Append(peerChan, m.rcv) ELSE peerChan
    /\ UNCHANGED <<wire, nextSeq, recvCount, peerPresent>>
    /\ UNCHANGED otherThanTask

\* the peer leaves or loses its connection
PeerLeaves ==
  /\ peerPresent
  /\ peerPresent' = FALSE
  /\ UNCHANGED <<wire, nextSeq, recvCount, handling, peerChan>>
  /\ UNCHANGED otherThanTask

\* a peer joins the session (again)
PeerJoins ==
  /\ ~peerPresent
  /\ peerPresent' = TRUE
  /\ UNCHANGED <<wire, nextSeq, recvCount, handling, peerChan>>
  /\ UNCHANGED otherThanTask

TaskNext == ClientSend \/ TaskTake \/ TaskWrite \/ PeerLeaves \/ PeerJoins

(***************************************************************************)
(* Viewer-side metrics (DesktopPage.jsx).  Times are readings of           *)
(* performance.now() in milliseconds.  The metrics block at the end of a   *)
(* run of render (lines 293-313) is taken as one step, whatever the head   *)
(* of that run did; of the per-frame arrays it fills, the end-to-end       *)
(* latency store and the two frame counters are kept.                      *)
(***************************************************************************)
ClockInit ==
  /\ now = 0
  /\ clockSteps = 0

FrameInit ==
  /\ lastCaptureTs = 0
  /\ e2eLatencyMs = <<>>
  /\ frameIndex = 0
  /\ processedFrames = 0
  /\ ticks = 0

\* time passes
ClockAdvance ==
  /\ clockSteps < MaxClock
  /\ \E d \in ClockSteps : now' = now + d
  /\ clockSteps' = clockSteps + 1
  /\ UNCHANGED <<frameVars, bwVars, benchVars>>
  /\ UNCHANGED otherThanMetrics

\* a || b on numbers: b when a is 0 (or absent)
OrElse(a, b) == IF a = 0 THEN b ELSE a

\* the sample is the plain difference
e2eSample_Unclamped(displayTs, captureTs) == displayTs - captureTs

\* Math.max(0, displayTs - captureTs)
e2eSample(displayTs, captureTs) ==
  IF displayTs - captureTs > 0 THEN displayTs - captureTs ELSE 0

\* ws.onmessage, msg.type === 'capture_ts': msg.ts is the producer's clock
\* reading, or absent (0).  lastCaptureFrameRef, a count of these messages
\* that nothing reads, is left out.
CaptureTs ==
  /\ \E ts \in {0} \cup {now + k : k \in CaptureSkews} :
       lastCaptureTs' = OrElse(ts, now)
  /\ UNCHANGED <<e2eLatencyMs, frameIndex, processedFrames, ticks>>
  /\ UNCHANGED <<clockVars, bwVars, benchVars>>
  /\ UNCHANGED otherThanMetrics

\* the record counts the frame from 0
frameNumber_FromZero(index) == index

\* frame: frameIndexRef.current + 1
frameNumber(index) == index + 1

\* objectsMap: per class name, the boxes of that class in the list
objectsMap(dets) ==
  [k \in {dets[i] : i \in DOMAIN dets} |-> Cardinality({i \in DOMAIN dets : dets[i] = k})]

\* model latencies detect reports, ms
DetectionLatencies == {0, 40}

\* render, after the await: detectionLatency.current is the latency the
\* result reports, or the measured time of the call
DetectLatency ==
  /\ \E ms \in DetectionLatencies : detectionLatency' = ms
  /\ detectionLatency' # detectionLatency
  /\ UNCHANGED <<latencyMs, detectionCountPerFrame, detectionsByFrame>>
  /\ UNCHANGED frameVars
  /\ UNCHANGED <<clockVars, bwVars, benchVars>>
  /\ UNCHANGED otherThanStore

\* the metrics block of a run of render that had a video size
ObserveFrame ==
  /\ ticks < MaxTicks
  /\ LET displayTs == now
         captureTs == OrElse(lastCaptureTs, displayTs)
     IN e2eLatencyMs' = Append(e2eLatencyMs, e2eSample(displayTs, captureTs))
  /\ latencyMs' = Append(latencyMs, OrElse(detectionLatency, 0))
  /\ detectionCountPerFrame' = Append(detectionCountPerFrame, Len(lastDetections))
  /\ detectionsByFrame' = Append(detectionsByFrame,
                                 [frame |-> frameNumber(frameIndex),
                                  objects |-> objectsMap(lastDetections)])
  /\ frameIndex' = frameIndex + 1
  /\ processedFrames' = processedFrames + 1
  /\ ticks' = ticks + 1
  /\ UNCHANGED <<lastCaptureTs, detectionLatency>>
  /\ UNCHANGED <<clockVars, bwVars, benchVars>>
  /\ UNCHANGED otherThanStore

FrameNext == ClockAdvance \/ CaptureTs \/ ObserveFrame

(***************************************************************************)
(* MetricsTracker bandwidth sampling (the class exported by metrics.js,    *)
(* whose text is in JoinPage.jsx lines 143-335).  updateBandwidth is       *)
(* async: a call suspends at getStats() and runs the rest of its body in   *)
(* one piece when the promise settles.  It is called un-awaited by render  *)
(* on every run and by the benchmark's 1 s timer, so calls overlap.        *)
(***************************************************************************)
BwInit ==
  /\ peerConnection = FALSE
  /\ bytesReceived = 0
  /\ bytesSent = 0
  /\ bwPending = 0
  /\ lastBandwidthCheck = 0
  /\ lastBytesReceived = 0
  /\ lastBytesSent = 0
  /\ bandwidthHistory = <<>>
  /\ currentBandwidth = [uplink |-> 0, downlink |-> 0]
  /\ samplingCalls = 0
  /\ lastAppendAt = -1

\* Math.round(n / d) for d > 0: floor(n/d + 1/2)
RoundDiv(n, d) == (2 * n + d) \div (2 * d)

\* Math.round(((bytes - lastBytes) * 8) / (elapsed / 1000) / 1000)
kbps(bytes, lastBytes, elapsed) == RoundDiv((bytes - lastBytes) * 8, elapsed)

RECURSIVE SumSeq(_)
SumSeq(values) == IF values = <<>> THEN 0 ELSE Head(values) + SumSeq(Tail(values))

\* MetricsTracker.calculateMovingAverage(values)
calculateMovingAverage(values) ==
  IF Len(values) = 0 THEN 0 ELSE RoundDiv(SumSeq(values), Len(values))

\* when the history is full the new sample is the one that goes
PushWindow_DropNewest(history, x) ==
  IF Len(history) + 1 > maxSamples THEN history ELSE Append(history, x)

\* history.push(x); if (history.length > maxSamples) history.shift()
PushWindow(history, x) ==
  IF Len(history) + 1 > maxSamples THEN Tail(Append(history, x)) ELSE Append(history, x)

\* the average is reported as it is
Max0_Unclamped(x) == x

\* Math.max(0, x)
Max0(x) == IF x > 0 THEN x ELSE 0

\* every call that reads the counters computes a sample
hasBaseline_Always(lastReceived, elapsed) == TRUE

\* this.lastBytesReceived > 0 && elapsed > 0
hasBaseline(lastReceived, elapsed) == lastReceived > 0 /\ elapsed > 0

\* ensurePeer: metricsTracker.setPeerConnection(pc), once per page
SetPeerConnection ==
  /\ ~peerConnection
  /\ peerConnection' = TRUE
  /\ UNCHANGED <<bytesReceived, bytesSent, bwPending, lastBandwidthCheck, lastBytesReceived,
                 lastBytesSent, bandwidthHistory, currentBandwidth, samplingCalls>>
  /\ UNCHANGED <<clockVars, frameVars, benchVars>>
  /\ UNCHANGED otherThanMetrics

\* the transport moves video: its cumulative counters grow
Traffic ==
  /\ peerConnection
  /\ bytesReceived < MaxBytes
  /\ \E t \in TrafficSteps :
       /\ bytesReceived' = bytesReceived + t[1]
       /\ bytesSent' = bytesSent + t[2]
  /\ UNCHANGED <<peerConnection, bwPending, lastBandwidthCheck, lastBytesReceived,
                 lastBytesSent, bandwidthHistory, currentBandwidth, samplingCalls>>
  /\ UNCHANGED <<clockVars, frameVars, benchVars>>
  /\ UNCHANGED otherThanMetrics

\* updateBandwidth() is called: returns at once without a peer connection,
\* else suspends at getStats()
BwCall ==
  /\ bwPending < MaxPending
  /\ bwPending' = IF peerConnection THEN bwPending + 1 ELSE bwPending
  /\ UNCHANGED <<peerConnection, bytesReceived, bytesSent, lastBandwidthCheck,
                 lastBytesReceived, lastBytesSent, bandwidthHistory, currentBandwidth,
                 samplingCalls>>
  /\ UNCHANGED <<clockVars, frameVars, benchVars>>
  /\ UNCHANGED otherThanMetrics

\* no gate: every resumed call samples
tooSoon_Never(elapsed) == FALSE

\* "if (elapsed < 1000) return"
tooSoon(elapsed) == elapsed < 1000

\* getStats() resolved: the rest of the try block
BwResolve ==
  /\ bwPending > 0
  /\ bwPending' = bwPending - 1
  /\ LET elapsed == now - lastBandwidthCheck
     IN IF tooSoon(elapsed)
        THEN UNCHANGED <<lastBandwidthCheck, lastBytesReceived, lastBytesSent,
                         bandwidthHistory, currentBandwidth, samplingCalls,
                         lastAppendAt>>
        ELSE /\ IF hasBaseline(lastBytesReceived, elapsed)
                THEN /\ lastAppendAt' = now
                     /\ bandwidthHistory' =
                          PushWindow(bandwidthHistory,
                                     [uplink |-> kbps(bytesSent, lastBytesSent, elapsed),
                                      downlink |-> kbps(bytesReceived, lastBytesReceived, elapsed)])
                     /\ currentBandwidth' =
                          [uplink |-> Max0(calculateMovingAverage(
                                        [i \in 1..Len(bandwidthHistory') |->
                                           bandwidthHistory'[i].uplink])),
                           downlink |-> Max0(calculateMovingAverage(
                                        [i \in 1..Len(bandwidthHistory') |->
                                           bandwidthHistory'[i].downlink]))]
                ELSE UNCHANGED <<bandwidthHistory, currentBandwidth, lastAppendAt>>
             /\ lastBytesReceived' = bytesReceived
             /\ lastBytesSent' = bytesSent
             /\ lastBandwidthCheck' = now
             /\ samplingCalls' = samplingCalls + 1
  /\ UNCHANGED <<peerConnection, bytesReceived, bytesSent>>
  /\ UNCHANGED <<clockVars, frameVars, benchVars>>
  /\ UNCHANGED otherThanBwResolve

\* the video stream's reports are replaced (the sender restarts the track):
\* the sums over the inbound-rtp / outbound-rtp reports start again from 0
CountersRestart ==
  /\ peerConnection
  /\ bytesReceived > 0
  /\ bytesReceived' = 0
  /\ bytesSent' = 0
  /\ UNCHANGED <<peerConnection, bwPending, lastBandwidthCheck, lastBytesReceived,
                 lastBytesSent, bandwidthHistory, currentBandwidth, samplingCalls>>
  /\ UNCHANGED <<clockVars, frameVars, benchVars>>
  /\ UNCHANGED otherThanMetrics

\* getStats() rejected: the catch block
BwReject ==
  /\ bwPending > 0
  /\ bwPending' = bwPending - 1
  /\ currentBandwidth' = [uplink |-> 0, downlink |-> 500]
  /\ UNCHANGED <<peerConnection, bytesReceived, bytesSent, lastBandwidthCheck,
                 lastBytesReceived, lastBytesSent, bandwidthHistory, samplingCalls>>
  /\ UNCHANGED <<clockVars, frameVars, benchVars>>
  /\ UNCHANGED otherThanMetrics

BwNext ==
  \/ ClockAdvance
  \/ SetPeerConnection
  \/ Traffic
  \/ CountersRestart
  \/ BwCall
  \/ BwResolve
  \/ BwReject

(***************************************************************************)
(* Benchmark runner (DesktopPage.jsx startBench, lines 546-614).           *)
(* startBench empties the per-frame store and the frame counters, starts   *)
(* a 1 s timer that calls metricsTracker.updateBandwidth, and hands        *)
(* benchTick to requestAnimationFrame; benchTick re-arms itself until the  *)
(* clock has reached endAt, then computes the summary and downloads the    *)
(* payload as metrics.json.                                                *)
(***************************************************************************)
NoArtifact == [durationSec |-> 0, summary |-> "none", samples |-> <<>>]

BenchInit ==
  /\ benchRunning = FALSE
  /\ durationSec = 0
  /\ endAt = 0
  /\ benchRaf = FALSE
  /\ bwTimer = FALSE
  /\ artifact = NoArtifact
  /\ runs = 0
  /\ ticksAtStart = 0
  /\ bwAtStart = 0
  /\ firstTickAt = -1
  /\ artifacts = 0

\* Number(x.toFixed(1)): x in hundredths, the result in tenths
toFixed1(x100) == (x100 + 5) \div 10

\* whole frames per second, fractions dropped
fpsProcessed_Floor(frames, seconds) == frames \div seconds

\* Math.round(processedFramesRef.current / durationSec)
fpsProcessed(frames, seconds) == RoundDiv(frames, seconds)

\* the summary of benchTick; median and p95 in tenths of a millisecond
summaryOf(e2e, frames, seconds, bandwidth) ==
  [median |-> toFixed1(percentile(e2e, 50)),
   p95 |-> toFixed1(percentile(e2e, 95)),
   fps_processed |-> fpsProcessed(frames, seconds),
   uplink_kbps |-> bandwidth.uplink,
   downlink_kbps |-> bandwidth.downlink]

\* what is left of the model's clock, in milliseconds
ClockLeft ==
  (MaxClock - clockSteps) * (CHOOSE d \in ClockSteps : \A e \in ClockSteps : d <= e)

\* every call starts a run
benchBusy_Never(running) == FALSE

\* if (benchRunningRef.current) return
benchBusy(running) == running

\* startBench(durationSec); a call while a run is in progress returns at once.
\* A run is started only while the model's clock can still reach its end.
StartBench ==
  /\ runs < MaxRuns \/ benchRunning
  /\ \E d \in Durations :
       IF benchBusy(benchRunning)
       THEN UNCHANGED <<frameVars, benchVars, fpsSamples, storeVars>>
       ELSE /\ d * 1000 <= ClockLeft
            /\ benchRunning' = TRUE
            /\ fpsSamples' = <<>>
            /\ latencyMs' = <<>>
            /\ e2eLatencyMs' = <<>>
            /\ detectionCountPerFrame' = <<>>
            /\ detectionsByFrame' = <<>>
            /\ frameIndex' = 0
            /\ processedFrames' = 0
            /\ durationSec' = d
            /\ endAt' = now + d * 1000
            /\ bwTimer' = TRUE
            /\ benchRaf' = TRUE
            /\ runs' = runs + 1
            /\ ticksAtStart' = ticks
            /\ bwAtStart' = Len(bandwidthHistory)
            /\ firstTickAt' = -1
            /\ UNCHANGED <<lastCaptureTs, ticks, artifact, artifacts, detectionLatency>>
  /\ UNCHANGED <<clockVars, bwVars>>
  /\ UNCHANGED otherThanBench

\* benchTick, run by requestAnimationFrame
BenchTick ==
  /\ benchRaf
  /\ firstTickAt' = IF firstTickAt = -1 THEN now ELSE firstTickAt
  /\ IF ~benchRunning
     THEN /\ benchRaf' = FALSE
          /\ UNCHANGED <<benchRunning, durationSec, endAt, bwTimer, artifact, artifacts>>
     ELSE IF now >= endAt
     THEN /\ bwTimer' = FALSE
          /\ benchRunning' = FALSE
          /\ artifact' = [durationSec |-> durationSec,
                          summary |-> summaryOf(e2eLatencyMs, processedFrames,
                                                durationSec, currentBandwidth),
                          samples |-> e2eLatencyMs]
          /\ artifacts' = artifacts + 1
          /\ benchRaf' = FALSE
          /\ UNCHANGED <<durationSec, endAt>>
     ELSE UNCHANGED <<benchRunning, durationSec, endAt, benchRaf, bwTimer, artifact,
                      artifacts>>
  /\ UNCHANGED <<runs, ticksAtStart, bwAtStart>>
  /\ UNCHANGED <<clockVars, frameVars, bwVars>>
  /\ UNCHANGED otherThanMetrics

\* a benchmark run next to the bandwidth sampling it polls, with a transport
\* whose counters can always be read (getStats never rejects)
BenchBandwidthNext ==
  \/ ClockAdvance
  \/ StartBench
  \/ BenchTick
  \/ SetPeerConnection
  \/ Traffic
  \/ BwCall
  \/ BwResolve

(***************************************************************************)
(* The endpoints' handling of the peer's session description and ICE       *)
(* candidates (DesktopPage.jsx handleOffer / handleIceCandidate, JoinPage  *)
(* handleAnswer / addIce).  The relay orders nothing across participants   *)
(* and the peer may emit a candidate before it sends its description, so   *)
(* the messages of the peer arrive in any order.  ws.onmessage is async:   *)
(* a handler suspended at an await lets the next message be handled.       *)
(* RTCPeerConnection is the platform's: setRemoteDescription and           *)
(* addIceCandidate run one after the other on the connection's operations  *)
(* chain, and addIceCandidate rejects (InvalidStateError) when it runs     *)
(* while remoteDescription is null.                                        *)
(***************************************************************************)
IceInit ==
  /\ toDeliver = [e \in Endpoints |-> {Sdp} \cup Candidates]
  /\ remoteDescription = [e \in Endpoints |-> "none"]
  /\ chained = [e \in Endpoints |-> <<>>]
  /\ pendingCandidates = <<>>
  /\ flushing = FALSE
  /\ added = [e \in Endpoints |-> <<>>]
  /\ rejected = [e \in Endpoints |-> {}]
  /\ queuedEver = <<>>

\* pc.addIceCandidate(candidate) called at endpoint e: what becomes of it
addIceCandidate(e, c) ==
  CASE remoteDescription[e] = "set" ->
         /\ added' = [added EXCEPT ![e] = Append(@, c)]
         /\ UNCHANGED <<chained, rejected>>
    [] remoteDescription[e] = "pending" ->
         /\ chained' = [chained EXCEPT ![e] = Append(@, c)]
         /\ UNCHANGED <<added, rejected>>
    [] OTHER ->
         /\ rejected' = [rejected EXCEPT ![e] = @ \cup {c}]
         /\ UNCHANGED <<added, chained>>

\* which endpoint queues a candidate that comes before the description:
\* JoinPage addIce does, DesktopPage handleIceCandidate does not
holdsBack(e) == e = "producer"

\* DesktopPage handleOffer / JoinPage handleAnswer up to
\* await pc.setRemoteDescription(...)
ReceiveDescription(e) ==
  /\ Sdp \in toDeliver[e]
  /\ toDeliver' = [toDeliver EXCEPT ![e] = @ \ {Sdp}]
  /\ remoteDescription' = [remoteDescription EXCEPT ![e] = "pending"]
  /\ UNCHANGED <<chained, pendingCandidates, flushing, added, rejected, queuedEver>>
  /\ UNCHANGED otherThanIce

\* setRemoteDescription resolved: the calls chained behind it run, and the
\* handler goes on (handleOffer to the answer, handleAnswer to its flush loop)
DescriptionSet(e) ==
  /\ remoteDescription[e] = "pending"
  /\ remoteDescription' = [remoteDescription EXCEPT ![e] = "set"]
  /\ added' = [added EXCEPT ![e] = @ \o chained[e]]
  /\ chained' = [chained EXCEPT ![e] = <<>>]
  /\ flushing' = IF e = "producer" THEN TRUE ELSE flushing
  /\ UNCHANGED <<toDeliver, pendingCandidates, rejected, queuedEver>>
  /\ UNCHANGED otherThanIce

\* an ice-candidate message: DesktopPage handleIceCandidate (ensurePeer,
\* then addIceCandidate in try / catch), JoinPage addIce (addIceCandidate
\* when remoteDescription is there, else pendingCandidates.push)
ReceiveCandidate(e, c) ==
  /\ c \in toDeliver[e]
  /\ toDeliver' = [toDeliver EXCEPT ![e] = @ \ {c}]
  /\ IF holdsBack(e) /\ remoteDescription[e] # "set"
     THEN /\ pendingCandidates' = Append(pendingCandidates, c)
          /\ queuedEver' = Append(queuedEver, c)
          /\ UNCHANGED <<chained, added, rejected>>
     ELSE /\ addIceCandidate(e, c)
          /\ UNCHANGED <<pendingCandidates, queuedEver>>
  /\ UNCHANGED <<remoteDescription, flushing>>
  /\ UNCHANGED otherThanIce

\* the head is read and left in the queue
afterShift_Peek(q) == q

\* pendingCandidates.shift(): the queue without its head
afterShift(q) == Tail(q)

\* handleAnswer: one turn of while (pendingCandidates.length) await
\* addIceCandidate(pendingCandidates.shift()), or the end of the loop
Flush ==
  /\ flushing
  /\ IF pendingCandidates # <<>>
     THEN /\ addIceCandidate("producer", Head(pendingCandidates))
          /\ pendingCandidates' = afterShift(pendingCandidates)
          /\ UNCHANGED flushing
     ELSE /\ flushing' = FALSE
          /\ UNCHANGED <<pendingCandidates, chained, added, rejected>>
  /\ UNCHANGED <<toDeliver, remoteDescription, queuedEver>>
  /\ UNCHANGED otherThanIce

IceNext ==
  \/ \E e \in Endpoints : ReceiveDescription(e)
  \/ \E e \in Endpoints : DescriptionSet(e)
  \/ \E e \in Endpoints, c \in Candidates : ReceiveCandidate(e, c)
  \/ Flush

(***************************************************************************)
(* Playback of the remote stream (DesktopPage.jsx pc.ontrack, lines        *)
(* 388-432).  tryPlay calls v.play(); when the promise rejects it arms a   *)
(* 300 ms timer that calls tryPlay again.  tryPlay is called once from     *)
(* ontrack and once more from v.onloadedmetadata, for every track event.   *)
(***************************************************************************)
PlayInit ==
  /\ trackEvents = 0
  /\ metadataLoaded = FALSE
  /\ playCalls = 0
  /\ retryTimers = 0
  /\ failedPlays = 0
  /\ connectionStatus = "waiting"

\* pc.ontrack: the stream is attached, tryPlay() is called
OnTrack ==
  /\ trackEvents < MaxTrackEvents
  /\ trackEvents' = trackEvents + 1
  /\ metadataLoaded' = FALSE
  /\ playCalls' = playCalls + 1
  /\ connectionStatus' = "connecting"
  /\ UNCHANGED <<retryTimers, failedPlays>>
  /\ UNCHANGED otherThanPlay

\* v.onloadedmetadata: tryPlay() again
LoadedMetadata ==
  /\ trackEvents > 0
  /\ ~metadataLoaded
  /\ metadataLoaded' = TRUE
  /\ playCalls' = playCalls + 1
  /\ UNCHANGED <<trackEvents, retryTimers, failedPlays, connectionStatus>>
  /\ UNCHANGED otherThanPlay

\* v.play() resolved
PlayResolved ==
  /\ playCalls > 0
  /\ playCalls' = playCalls - 1
  /\ connectionStatus' = "streaming"
  /\ UNCHANGED <<trackEvents, metadataLoaded, retryTimers, failedPlays>>
  /\ UNCHANGED otherThanPlay

\* v.play() rejected: setTimeout(tryPlay, 300)
PlayRejected ==
  /\ playCalls > 0
  /\ failedPlays < MaxPlayFailures
  /\ playCalls' = playCalls - 1
  /\ retryTimers' = retryTimers + 1
  /\ failedPlays' = failedPlays + 1
  /\ UNCHANGED <<trackEvents, metadataLoaded, connectionStatus>>
  /\ UNCHANGED otherThanPlay

\* a retry timer fires: tryPlay()
RetryFires ==
  /\ retryTimers > 0
  /\ retryTimers' = retryTimers - 1
  /\ playCalls' = playCalls + 1
  /\ UNCHANGED <<trackEvents, metadataLoaded, failedPlays, connectionStatus>>
  /\ UNCHANGED otherThanPlay

PlayNext == OnTrack \/ LoadedMetadata \/ PlayResolved \/ PlayRejected \/ RetryFires

\* a benchmark run next to the frames render observes (no capture_ts
\* messages: every latency sample is 0)
BenchNext ==
  \/ ClockAdvance
  \/ ObserveFrame
  \/ StartBench
  \/ BenchTick

\* the per-frame store under render runs and benchmark starts
StoreNext ==
  \/ ClockAdvance
  \/ DetectLatency
  \/ ObserveFrame
  \/ StartBench
  \/ BenchTick

(***************************************************************************)
(* Frames per second.  render calls updateFPS() once per run that has a    *)
(* video size; that function first calls metricsTracker.updateFPS() and    *)
(* then keeps the page's own counter.  Both count the call, and once a     *)
(* second or more has passed since their last value they compute one from  *)
(* the count and start counting again.  Both read the clock in the same    *)
(* run of the event loop; the model gives them the same reading.           *)
(***************************************************************************)
FpsInit ==
  /\ fpsFrameCount = 0
  /\ lastFpsTime = 0
  /\ fpsHistory = <<>>
  /\ currentFps = 0
  /\ fpsFrameCountRef = 0
  /\ lastFpsTimeRef = 0
  /\ currentFpsRef = 0
  /\ fpsSamples = <<>>
  /\ fpsCalls = 0
  /\ sampledFrames = <<>>
  /\ sampledFramesRef = <<>>

\* the counter is left running when a value is computed
countAfterSample_Keep(count) == count

\* "this.fpsFrameCount = 0" / "fpsFrameCount.current = 0"
countAfterSample(count) == 0

\* "if (elapsed >= 1000)"
fpsDue(elapsed) == elapsed >= 1000

\* Math.round((count * 1000) / elapsed)
fpsOf(count, elapsed) == RoundDiv(count * 1000, elapsed)

\* "currentFps > 0 ? currentFps : 1"
safeFps(fps) == IF fps > 0 THEN fps ELSE 1

\* MetricsTracker.updateFPS
TrackerUpdateFPS ==
  LET count == fpsFrameCount + 1
      elapsed == now - lastFpsTime
  IN IF fpsDue(elapsed)
     THEN /\ fpsHistory' = PushWindow(fpsHistory, fpsOf(count, elapsed))
          /\ currentFps' = calculateMovingAverage(fpsHistory')
          /\ fpsFrameCount' = countAfterSample(count)
          /\ lastFpsTime' = now
          /\ sampledFrames' = Append(sampledFrames, count)
     ELSE /\ fpsFrameCount' = count
          /\ UNCHANGED <<fpsHistory, currentFps, lastFpsTime, sampledFrames>>

\* DesktopPage updateFPS, after the call of the tracker
PageUpdateFPS ==
  LET count == fpsFrameCountRef + 1
      elapsed == now - lastFpsTimeRef
  IN IF fpsDue(elapsed)
     THEN /\ currentFpsRef' = safeFps(fpsOf(count, elapsed))
          /\ fpsSamples' = Append(fpsSamples, currentFpsRef')
          /\ fpsFrameCountRef' = countAfterSample(count)
          /\ lastFpsTimeRef' = now
          /\ sampledFramesRef' = Append(sampledFramesRef, count)
     ELSE /\ fpsFrameCountRef' = count
          /\ UNCHANGED <<currentFpsRef, fpsSamples, lastFpsTimeRef, sampledFramesRef>>

\* render, "updateFPS()"
UpdateFPS ==
  /\ fpsCalls < MaxFpsCalls
  /\ fpsCalls' = fpsCalls + 1
  /\ TrackerUpdateFPS
  /\ PageUpdateFPS
  /\ UNCHANGED otherThanFps

FpsNext ==
  \/ ClockAdvance
  \/ UpdateFPS

(***************************************************************************)
(* The phone's start-up (JoinPage.jsx 12-101).  The effect asks for the    *)
(* camera; when getUserMedia resolves it calls initWS, which opens the     *)
(* WebSocket; ws.onopen sends join, creates the peer connection, and then  *)
(* creates, applies and sends the offer, suspended at createOffer and at   *)
(* setLocalDescription.  The effect's cleanup (unmount) stops the tracks   *)
(* and closes the socket and the peer connection it finds at that moment.  *)
(* WebSocket.send on a socket that is closing or closed discards the       *)
(* message.                                                                *)
(***************************************************************************)
PhoneInit ==
  /\ cameraState = "requesting"
  /\ mounted = TRUE
  /\ wsState = "none"
  /\ pcRef = "null"
  /\ onopenPc = "idle"
  /\ sentByPhone = <<>>
  /\ localCands = 0
  /\ status = "Requesting camera..."

\* the channel is opened whatever getUserMedia came to
channelAfterCapture_Always(ok) == "connecting"

\* the effect: initWS() follows "await getUserMedia" inside the try block;
\* the catch only sets the status
channelAfterCapture(ok) == IF ok THEN "connecting" ELSE "none"

\* wsRef.current?.send(...): sent when the socket is open
phoneSend(sent, ws, type) == IF ws = "open" THEN Append(sent, type) ELSE sent

\* getUserMedia settles: the rest of the effect's async function
GetUserMediaSettles(ok) ==
  /\ cameraState = "requesting"
  /\ cameraState' = IF ok THEN "granted" ELSE "denied"
  /\ wsState' = channelAfterCapture(ok)
  /\ status' = IF ok THEN "Camera ready, connecting..." ELSE "Camera permission denied"
  /\ UNCHANGED <<mounted, pcRef, onopenPc, sentByPhone, localCands>>
  /\ UNCHANGED otherThanPhone

\* ws.onopen up to "await pc.createOffer()": join is sent, ensurePC creates
\* the peer connection (it has no await of its own)
WsOpen ==
  /\ wsState = "connecting"
  /\ wsState' = "open"
  /\ sentByPhone' = phoneSend(sentByPhone, "open", "join")
  /\ pcRef' = IF pcRef = "null" THEN "open" ELSE pcRef
  /\ onopenPc' = "createOffer"
  /\ UNCHANGED <<cameraState, mounted, localCands, status>>
  /\ UNCHANGED otherThanPhone

\* the connection attempt fails: ws.onerror
WsError ==
  /\ wsState = "connecting"
  /\ wsState' = "closed"
  /\ status' = "Connection error"
  /\ UNCHANGED <<cameraState, mounted, pcRef, onopenPc, sentByPhone, localCands>>
  /\ UNCHANGED otherThanPhone

\* the open socket is closed by the relay or the network
WsClosed ==
  /\ wsState = "open"
  /\ wsState' = "closed"
  /\ UNCHANGED <<cameraState, mounted, pcRef, onopenPc, sentByPhone, localCands, status>>
  /\ UNCHANGED otherThanPhone

\* createAndSendOffer: createOffer settles (it rejects on a closed connection)
OfferCreated ==
  /\ onopenPc = "createOffer"
  /\ onopenPc' = IF pcRef = "open" THEN "setLocal" ELSE "failed"
  /\ UNCHANGED <<cameraState, mounted, wsState, pcRef, sentByPhone, localCands, status>>
  /\ UNCHANGED otherThanPhone

\* createAndSendOffer: setLocalDescription settles; the offer is sent
LocalDescriptionSet ==
  /\ onopenPc = "setLocal"
  /\ IF pcRef = "open"
     THEN /\ onopenPc' = "done"
          /\ sentByPhone' = phoneSend(sentByPhone, wsState, "offer")
     ELSE /\ onopenPc' = "failed"
          /\ UNCHANGED sentByPhone
  /\ UNCHANGED <<cameraState, mounted, wsState, pcRef, localCands, status>>
  /\ UNCHANGED otherThanPhone

\* pc.onicecandidate with a candidate: gathering runs once the local
\* description is applied
LocalCandidate ==
  /\ onopenPc = "done"
  /\ pcRef = "open"
  /\ localCands < MaxLocalCand
  /\ localCands' = localCands + 1
  /\ sentByPhone' = phoneSend(sentByPhone, wsState, "ice-candidate")
  /\ UNCHANGED <<cameraState, mounted, wsState, pcRef, onopenPc, status>>
  /\ UNCHANGED otherThanPhone

\* pc.onconnectionstatechange with connectionState "connected" (the
\* desktop's answer and candidates have done their work)
PcConnected ==
  /\ onopenPc = "done"
  /\ pcRef = "open"
  /\ "offer" \in {sentByPhone[i] : i \in 1..Len(sentByPhone)}
  /\ status # "Streaming to desktop"
  /\ status' = "Streaming to desktop"
  /\ UNCHANGED <<cameraState, mounted, wsState, pcRef, onopenPc, sentByPhone, localCands>>
  /\ UNCHANGED otherThanPhone

\* the effect's cleanup: tracks stopped, wsRef.current?.close(),
\* pcRef.current?.close()
PhoneUnmount ==
  /\ mounted
  /\ mounted' = FALSE
  /\ wsState' = IF wsState \in {"connecting", "open"} THEN "closed" ELSE wsState
  /\ pcRef' = IF pcRef = "open" THEN "closed" ELSE pcRef
  /\ UNCHANGED <<cameraState, onopenPc, sentByPhone, localCands, status>>
  /\ UNCHANGED otherThanPhone

PhoneNext ==
  \/ \E ok \in BOOLEAN : GetUserMediaSettles(ok)
  \/ WsOpen
  \/ WsError
  \/ WsClosed
  \/ OfferCreated
  \/ LocalDescriptionSet
  \/ LocalCandidate
  \/ PcConnected
  \/ PhoneUnmount

(***************************************************************************)
(* The viewer's peer connection (DesktopPage.jsx 375-487).  ws.onmessage   *)
(* is an async function: the handler of one message is suspended at its    *)
(* awaits while the handlers of later messages start.  handleOffer and     *)
(* handleIceCandidate both begin with "await ensurePeer()"; ensurePeer has *)
(* no await between its test of peerConnectionRef.current and its          *)
(* assignment, so that part runs in the step that receives the message.    *)
(* The handler resumes in a later step and reads peerConnectionRef.current *)
(* then.                                                                   *)
(***************************************************************************)
ViewerPeerInit ==
  /\ peerConnectionRef = 0
  /\ pcCreated = 0
  /\ peerHandlers = {}
  /\ appliedTo = {}
  /\ peerMsgs = 0
  /\ answersSent = 0

\* a connection is constructed for every message
peerAfterEnsure_Always(existing, fresh) == fresh

\* ensurePeer: "if (peerConnectionRef.current) return", else the new
\* connection is stored
peerAfterEnsure(existing, fresh) == IF existing # 0 THEN existing ELSE fresh

\* an offer or ice-candidate message arrives: the handler runs ensurePeer
\* and is suspended at "await ensurePeer()"
PeerReceive(kind) ==
  /\ peerMsgs < MaxPeerMsgs
  /\ peerMsgs' = peerMsgs + 1
  /\ peerConnectionRef' = peerAfterEnsure(peerConnectionRef, pcCreated + 1)
  /\ pcCreated' = IF peerConnectionRef' = peerConnectionRef THEN pcCreated ELSE pcCreated + 1
  /\ peerHandlers' = peerHandlers \cup
       {[id |-> peerMsgs + 1, kind |-> kind, pos |-> "ensurePeer", pc |-> 0]}
  /\ UNCHANGED <<appliedTo, answersSent>>
  /\ UNCHANGED otherThanViewerPeer

\* a handler resumes from "await ensurePeer()": it reads
\* peerConnectionRef.current and calls setRemoteDescription or
\* addIceCandidate on it
PeerApply ==
  \E h \in peerHandlers :
    /\ h.pos = "ensurePeer"
    /\ appliedTo' = appliedTo \cup {[id |-> h.id, kind |-> h.kind, pc |-> peerConnectionRef]}
    /\ peerHandlers' = (peerHandlers \ {h}) \cup
         {[h EXCEPT !.pos = "applying", !.pc = peerConnectionRef]}
    /\ UNCHANGED <<peerConnectionRef, pcCreated, peerMsgs, answersSent>>
    /\ UNCHANGED otherThanViewerPeer

\* the awaited call settles: handleIceCandidate ends (a rejection is caught
\* and logged); handleOffer goes on to createAnswer and setLocalDescription
\* on the same connection and sends the answer
PeerSettle ==
  \E h \in peerHandlers :
    /\ h.pos = "applying"
    /\ peerHandlers' = peerHandlers \ {h}
    /\ answersSent' = IF h.kind = "offer" THEN answersSent + 1 ELSE answersSent
    /\ UNCHANGED <<peerConnectionRef, pcCreated, appliedTo, peerMsgs>>
    /\ UNCHANGED otherThanViewerPeer

ViewerPeerNext ==
  \/ \E kind \in {"offer", "ice-candidate"} : PeerReceive(kind)
  \/ PeerApply
  \/ PeerSettle

(***************************************************************************)
(* The tracker's windows.  updateFPS, addLatency and updateBandwidth each  *)
(* end a sample's way into their history with the same two statements:     *)
(* push, then shift when the length exceeds maxSamples.  Any sequence of   *)
(* calls is, for one history, a sequence of such pushes (calls that        *)
(* compute no sample push nothing).  Here the samples are numbered in the  *)
(* order they are pushed, so that the window's content says which samples  *)
(* were removed.                                                           *)
(***************************************************************************)
WindowInit ==
  /\ trackerWindows = [h \in Histories |-> <<>>]
  /\ trackerPushes = [h \in Histories |-> 0]

\* a call pushes its sample onto history h
WindowPush(h) ==
  /\ trackerPushes[h] < MaxPushes
  /\ trackerPushes' = [trackerPushes EXCEPT ![h] = @ + 1]
  /\ trackerWindows' = [trackerWindows EXCEPT ![h] = PushWindow(@, trackerPushes[h] + 1)]
  /\ UNCHANGED otherThanWindows

WindowNext == \E h \in Histories : WindowPush(h)

vars == <<pctVars, renderVars, relayVars, taskVars, metricsVars, laterVars>>

Init ==
  /\ PctInit
  /\ RenderInit
  /\ RelayInit
  /\ TaskInit
  /\ ClockInit
  /\ FrameInit
  /\ BwInit
  /\ BenchInit
  /\ IceInit
  /\ FpsInit
  /\ PhoneInit
  /\ ViewerPeerInit
  /\ WindowInit
  /\ latencyHistory = <<>>
  /\ latencyMs = <<>>
  /\ detectionCountPerFrame = <<>>
  /\ detectionsByFrame = <<>>
  /\ detectionLatency = 0
  /\ PlayInit

Next ==
  \/ PctNext
  \/ RenderNext
  \/ RelayNext
  \/ TaskNext
  \/ FrameNext
  \/ BwNext
  \/ BenchBandwidthNext
  \/ BenchNext
  \/ IceNext
  \/ FpsNext
  \/ DetectNext
  \/ PhoneNext
  \/ ViewerPeerNext
  \/ WindowNext
  \/ StoreNext
  \/ PlayNext

Spec == Init /\ [][Next]_vars

SpecPct == Init /\ [][PctNext]_vars

SpecRender == Init /\ [][RenderNext]_vars

SpecRelay == Init /\ [][RelayNext]_vars

SpecTask == Init /\ [][TaskNext]_vars

SpecFrames == Init /\ [][FrameNext]_vars

SpecBandwidth == Init /\ [][BwNext]_vars

SpecBenchBandwidth == Init /\ [][BenchBandwidthNext]_vars

SpecBench == Init /\ [][BenchNext]_vars

SpecIce == Init /\ [][IceNext]_vars

SpecPlay == Init /\ [][PlayNext]_vars

SpecFps == Init /\ [][FpsNext]_vars

SpecDetect == Init /\ [][DetectNext]_vars

SpecPhone == Init /\ [][PhoneNext]_vars

SpecViewerPeer == Init /\ [][ViewerPeerNext]_vars

SpecStore == Init /\ [][StoreNext]_vars

SpecWindow == Init /\ [][WindowNext]_vars

\* requestAnimationFrame keeps running benchTick while the page is shown, and
\* time passes
SpecBenchFair ==
  /\ Init
  /\ [][BenchNext]_vars
  /\ WF_vars(BenchTick)
  /\ WF_vars(ClockAdvance)

(***************************************************************************)
(* C1.  In every reachable state, whatever the interleaving of register    *)
(* calls, leaves, connection losses and their handling, each session holds *)
(* at most one producer registration and at most one viewer registration.  *)
(***************************************************************************)
C1_AtMostOnePerSlot ==
  \A s \in Sessions, role \in Roles : Cardinality(Occupants(s, role)) <= 1

\* a dead occupant has been replaced: its successor holds the slot alone
C1_Witness ==
  \E c, d \in Conns :
    /\ c # d
    /\ joinCall[c].pc = "done" /\ joinCall[c].decision = "accepted"
    /\ transport[c] = "closed" /\ c \notin gone
    /\ registrationsOf(c) = {}
    /\ Occupants(joinCall[c].sess, joinCall[c].role) =
         {[sess |-> joinCall[c].sess, role |-> joinCall[c].role, conn |-> d]}

(***************************************************************************)
(* C2.  The Frame Scheduler holds at most one in-flight frame: the render  *)
(* loop never calls detector.detect while an earlier detect call is        *)
(* unresolved.  (The pending frame is the one frame the video element      *)
(* shows: newer arrivals overwrite it.)  While a call is unresolved no run *)
(* of render is scheduled, so no further call can be made.                 *)
(***************************************************************************)
C2_SingleInFlight ==
  /\ Cardinality(inFlight) <= 1
  /\ inFlight # {} => rafPending = 0

\* two frames arrived while one annotation was in flight; none was submitted
C2_Witness ==
  \E c \in inFlight : videoFrame >= c.frame + 2

(***************************************************************************)
(* C3.  The sequence number of the displayed result never decreases: the   *)
(* frames whose results were stored in lastDetections form a               *)
(* non-decreasing sequence, and the stored result is the newest of them.   *)
(***************************************************************************)
C3_ResultNeverRegresses ==
  /\ \A i, j \in 1..Len(appliedFrames) :
        i < j => appliedFrames[i] <= appliedFrames[j]
  /\ \A i \in 1..Len(appliedFrames) : appliedFrames[i] <= lastDetectionsFrame

\* a second result, for a newer frame, replaced the first one
C3_Witness ==
  /\ Len(appliedFrames) = 2
  /\ appliedFrames[1] < appliedFrames[2]
  /\ lastDetectionsFrame = appliedFrames[2]

(***************************************************************************)
(* C4.  No offer, answer or ice-candidate is written to a connection whose *)
(* own join has not completed: every connection the relay forwards a       *)
(* negotiation message to has a finished, accepted register call.  In      *)
(* particular, when A has joined and sends an offer while B's join is      *)
(* still being processed, the offer is not written to B.                   *)
(***************************************************************************)
C4_NoForwardBeforeJoin ==
  \A e \in outbox :
    e.msg.type \in NegotiationTypes =>
      /\ joinCall[e.to].pc = "done"
      /\ joinCall[e.to].decision = "accepted"

\* A (joined) has just sent an offer while B's join for the same session waits
C4_Witness ==
  \E b \in Conns :
    /\ joinCall[b].pc = "waiting"
    /\ lastMsg.type = "offer"
    /\ lastMsg.sess = joinCall[b].sess
    /\ lastMsg.from # b
    /\ joinCall[lastMsg.from].decision = "accepted"
    /\ \A e \in outbox : e.to # b

(***************************************************************************)
(* C5.  Reconnect: when the producer of a session has dropped and a new    *)
(* producer connection has joined the same session finding no live         *)
(* occupant, then, as long as the viewer's connection is open and has not  *)
(* left, the new producer is accepted, the session is Paired, and the      *)
(* viewer is still registered under its original connection (connections   *)
(* send join only once, when they open, so the viewer has not rejoined).   *)
(***************************************************************************)
C5_ReconnectKeepsViewer ==
  \A old, new, v \in Conns :
    ( /\ old # new
      /\ joinCall[old].role = "producer" /\ joinCall[new].role = "producer"
      /\ joinCall[v].role = "viewer"
      /\ joinCall[old].sess = joinCall[new].sess /\ joinCall[v].sess = joinCall[new].sess
      /\ joinCall[old].pc = "done" /\ joinCall[old].decision = "accepted"
      /\ transport[old] = "closed"
      /\ joinCall[v].pc = "done" /\ joinCall[v].decision = "accepted"
      /\ Live(v) /\ v \notin gone
      /\ joinCall[new].pc = "done" /\ ~joinCall[new].liveOccupant
      /\ Live(new) /\ new \notin gone )
    => /\ joinCall[new].decision = "accepted"
       /\ relayState[joinCall[new].sess] = "Paired"
       /\ lookup(joinCall[new].sess) =
            {[sess |-> joinCall[new].sess, role |-> "producer", conn |-> new],
             [sess |-> joinCall[new].sess, role |-> "viewer", conn |-> v]}

\* the old producer dropped, the new producer's join arrived while the old
\* registration was still in place, and the closure has been handled: Paired
\* with the new producer and the viewer's registration
C5_Witness ==
  \E old, new, v \in Conns :
    /\ old # new
    /\ joinCall[old].role = "producer" /\ joinCall[old].decision = "accepted"
    /\ transport[old] = "closed" /\ old \in gone
    /\ joinCall[new].pc = "done" /\ joinCall[new].decision = "accepted"
    /\ joinCall[new].sess = joinCall[old].sess /\ ~joinCall[new].emptyAtCall
    /\ Live(new) /\ Live(v)
    /\ relayState[joinCall[new].sess] = "Paired"
    /\ lookup(joinCall[new].sess) =
         {[sess |-> joinCall[new].sess, role |-> "producer", conn |-> new],
          [sess |-> joinCall[new].sess, role |-> "viewer", conn |-> v]}

(***************************************************************************)
(* C6.  For every non-empty window and every p in 0..100 the value         *)
(* returned by percentile (and by calculatePercentile on the sorted        *)
(* window) is the linear interpolation between the two bracketing order    *)
(* statistics at rank index p/100*(n-1); percentile([10,20,30,40],50) = 25 *)
(* and percentile([10],50) = 10.                                           *)
(***************************************************************************)
\* k-th smallest element (k in 1..n), defined by counting, not by sorting
OrderStat(w, k) ==
  CHOOSE v \in {w[i] : i \in 1..Len(w)} :
    /\ Cardinality({i \in 1..Len(w) : w[i] < v}) < k
    /\ Cardinality({i \in 1..Len(w) : w[i] <= v}) >= k

\* 100 * (linear interpolation at rank index p/100*(n-1))
Interpolated100(w, p) ==
  LET n    == Len(w)
      r    == p * (n - 1)
      lo   == r \div 100
      frac == r % 100
      a    == OrderStat(w, lo + 1)
      b    == IF lo + 2 <= n THEN OrderStat(w, lo + 2) ELSE a
  IN 100 * a + frac * (b - a)

C6_PercentileInterpolates ==
  /\ (Len(pctValues) > 0 /\ pctOut # -1) => pctOut = Interpolated100(pctValues, pctP)
  /\ (Len(pctValues) > 0 /\ trkOut # -1) => trkOut = Interpolated100(pctValues, pctP)
  /\ (pctValues = <<10, 20, 30, 40>> /\ pctP = 50 /\ pctOut # -1) => pctOut = 2500
  /\ (pctValues = <<10>> /\ pctP = 50 /\ pctOut # -1) => pctOut = 1000

C6_Witness ==
  /\ pctValues = <<40, 10, 30, 20>>
  /\ pctP = 95
  /\ pctOut = 3850
  /\ trkOut = 3850

C8_SlotOccupiedLeavesSlots ==
  [][\A c \in Conns :
       (joinCall[c].pc = "decided" /\ joinCall[c].liveOccupant /\ joinCall'[c].pc = "done")
       => /\ joinCall'[c].decision = "SlotOccupied"
          /\ registry' = registry
          /\ relayState' = relayState
          /\ outbox' = {}]_vars

\* a finished call that failed with SlotOccupied while the live occupant is
\* still the one registered
C8_Witness ==
  \E c \in Conns :
    /\ joinCall[c].pc = "done"
    /\ joinCall[c].liveOccupant
    /\ joinCall[c].decision = "SlotOccupied"
    /\ registrationsOf(c) = {}
    /\ \E r \in Occupants(joinCall[c].sess, joinCall[c].role) : r.conn # c /\ Live(r.conn)

(***************************************************************************)
(* C9.  Per session: the join that finds the session Empty moves it to     *)
(* AwaitingPeer and notifies nobody; Paired is entered only from           *)
(* AwaitingPeer, by the join of the other role; and the step that enters   *)
(* Paired writes exactly one peer-joined, addressed to the participant     *)
(* that was registered before.  No other step writes a peer-joined.        *)
(***************************************************************************)
PeerJoined(box, s) == {e \in box : e.msg.type = "peer-joined" /\ e.msg.sess = s}

C9_JoinTransitions ==
  [][\A s \in Sessions :
       /\ (relayState[s] = "Empty" /\ relayState'[s] # "Empty")
            => /\ relayState'[s] = "AwaitingPeer"
               /\ Cardinality(lookup(s)') = 1
               /\ PeerJoined(outbox', s) = {}
       /\ (relayState[s] # "Paired" /\ relayState'[s] = "Paired")
            => /\ relayState[s] = "AwaitingPeer"
               /\ \E earlier \in lookup(s), joiner \in lookup(s)' \ lookup(s) :
                    /\ lookup(s) = {earlier}
                    /\ joiner.role # earlier.role
                    /\ lookup(s)' = {earlier, joiner}
                    /\ PeerJoined(outbox', s) =
                         {[to |-> earlier.conn,
                           msg |-> [type |-> "peer-joined", payload |-> "none",
                                    from |-> joiner.conn, sess |-> s]]}
       /\ PeerJoined(outbox', s) # {}
            => relayState[s] = "AwaitingPeer" /\ relayState'[s] = "Paired"]_vars

\* the session has just become Paired and the one peer-joined went to the
\* participant registered first
C9_Witness ==
  \E s \in Sessions, r, q \in registry :
    /\ relayState[s] = "Paired"
    /\ lookup(s) = {r, q}
    /\ r.role = "viewer" /\ q.role = "producer"
    /\ outbox = {[to |-> r.conn,
                  msg |-> [type |-> "peer-joined", payload |-> "none",
                           from |-> q.conn, sess |-> s]]}

(***************************************************************************)
(* C10.  When the relay takes in an offer, answer or ice-candidate, what   *)
(* it writes in that step is the message exactly as received, to the other *)
(* registered participant of the sender's session and to nobody else;      *)
(* with no peer (or a sender that is not a participant) nothing is         *)
(* written.  A negotiation message is written only in the step that takes  *)
(* it in, so a dropped message is not delivered later.  The sender's       *)
(* transport is open after the step.                                       *)
(***************************************************************************)
C10_ForwardVerbatimToPeerOnly ==
  /\ \A e \in outbox : e.msg.type \in NegotiationTypes => lastMsg = e.msg
  /\ lastMsg.type \in NegotiationTypes =>
       /\ {e.to : e \in outbox} =
            IF \E r \in lookup(lastMsg.sess) : r.conn = lastMsg.from
            THEN {r.conn : r \in {x \in lookup(lastMsg.sess) : x.conn # lastMsg.from}}
            ELSE {}
       /\ \A e \in outbox : e.msg = lastMsg
       /\ Live(lastMsg.from)

\* an answer carrying sdpB has just been forwarded to the peer while a third
\* connection is registered in another session and gets nothing
C10_Witness ==
  \E r \in registry :
    /\ lastMsg.type = "answer" /\ lastMsg.payload = "sdpB"
    /\ outbox # {}
    /\ r.sess # lastMsg.sess /\ Live(r.conn)
    /\ \A e \in outbox : e.to # r.conn /\ e.msg.payload = "sdpB"

\* a message has just been dropped: its sender is alone in the session
C10_DroppedCase ==
  /\ lastMsg.type \in NegotiationTypes
  /\ outbox = {}
  /\ Live(lastMsg.from)
  /\ lookup(lastMsg.sess) = registrationsOf(lastMsg.from)
  /\ registrationsOf(lastMsg.from) # {}

(***************************************************************************)
(* C11.  Messages of one participant reach its peer in the order the relay *)
(* received them: the messages written to the peer's channel carry         *)
(* strictly increasing receipt numbers, whatever was dropped in between.   *)
(***************************************************************************)
C11_ForwardedInOrder ==
  \A i, j \in 1..Len(peerChan) : i < j => peerChan[i] < peerChan[j]

\* the first and the third message received were written to the peer, the
\* second was dropped while the peer was away
C11_Witness ==
  /\ peerChan = <<1, 3>>
  /\ recvCount = 3
  /\ handling = {}

C13_MalformedDropped ==
  [][lastMsg'.type = "malformed" =>
       /\ registry' = registry
       /\ relayState' = relayState
       /\ transport' = transport
       /\ gone' = gone
       /\ Live(lastMsg'.from)
       /\ outbox' = {[to |-> lastMsg'.from,
                      msg |-> [type |-> "error", payload |-> "MalformedMessage",
                               from |-> lastMsg'.from, sess |-> lastMsg'.sess]]}]_vars

\* a Paired participant has just sent a malformed message: the error went to
\* it alone and both participants are still registered
C13_Witness ==
  \E r, q \in registry :
    /\ lastMsg.type = "malformed"
    /\ lastMsg.from = r.conn
    /\ q.sess = r.sess /\ q.conn # r.conn
    /\ relayState[r.sess] = "Paired"
    /\ Live(r.conn) /\ Live(q.conn)
    /\ \A e \in outbox : e.to = r.conn /\ e.msg.type = "error"
    /\ outbox # {}

(***************************************************************************)
(* C14.  The step in which render resumes from a detect call whose         *)
(* inference threw leaves lastDetections as it was, draws that list, and   *)
(* (unless the page was unmounted) hands render to requestAnimationFrame   *)
(* again; and whenever the loop is running with no detect call unresolved, *)
(* a run of render is scheduled.                                           *)
(***************************************************************************)
C14_EngineErrorNoUpdate ==
  [][/\ engineErrors' # engineErrors =>
          /\ lastDetections' = lastDetections
          /\ canvas'.boxes = lastDetections
          /\ isDetectionRunning => rafPending' = rafPending + 1
     /\ (isDetectionRunning' /\ inFlight' = {}) => rafPending' >= 1]_vars

\* an inference failed after an earlier one had stored a result: the stored
\* list is still there, drawn over a newer frame, and the next run is scheduled
C14_Witness ==
  /\ lastRun.kind = "error"
  /\ engineErrors = 1
  /\ lastDetections # <<>>
  /\ canvas.boxes = lastDetections
  /\ lastRun.frame > lastDetectionsFrame
  /\ rafPending = 1

(***************************************************************************)
(* C15.  While a detect call is unresolved the next run of render is       *)
(* already scheduled (the tick does not wait for the annotation engine).   *)
(***************************************************************************)
C15_TickWhileInFlight ==
  (isDetectionRunning /\ inFlight # {}) => rafPending >= 1

(***************************************************************************)
(* C16.  After every run of render that had a video size (whether its      *)
(* detect call was skipped, was not made, returned a result or failed) the *)
(* canvas shows lastDetections, drawn while the frame of that run was      *)
(* visible.                                                                *)
(***************************************************************************)
C16_EveryTickDrawsLast ==
  lastRun.kind # "none" =>
    /\ canvas.boxes = lastDetections
    /\ canvas.frame = lastRun.frame

\* a skipped run has just redrawn a stored result over a newer frame
C16_Witness ==
  /\ lastRun.kind = "skipped"
  /\ lastDetections # <<>>
  /\ canvas = [boxes |-> lastDetections, frame |-> lastRun.frame]
  /\ lastRun.frame > lastDetectionsFrame

(***************************************************************************)
(* C17.  Every end-to-end latency sample that render records is the        *)
(* display timestamp minus the capture timestamp in force (the display     *)
(* timestamp itself when no capture timestamp has arrived), raised to 0    *)
(* when that difference is negative; no stored sample is below 0.          *)
(***************************************************************************)
C17_SampleIsClampedDifference ==
  [][Len(e2eLatencyMs') > Len(e2eLatencyMs) =>
       LET d == now
           c == IF lastCaptureTs = 0 THEN now ELSE lastCaptureTs
           n == Len(e2eLatencyMs')
       IN /\ n = Len(e2eLatencyMs) + 1
          /\ e2eLatencyMs'[n] = (IF d < c THEN 0 ELSE d - c)
          /\ \A i \in 1..n : e2eLatencyMs'[i] >= 0]_vars

\* a positive sample, then one taken while the capture timestamp in force is
\* ahead of the viewer's clock: stored as 0
C17_Witness ==
  /\ Len(e2eLatencyMs) >= 2
  /\ e2eLatencyMs[1] > 0
  /\ e2eLatencyMs[Len(e2eLatencyMs)] = 0
  /\ lastCaptureTs > now

(***************************************************************************)
(* C18.  The store of end-to-end latency samples is a window of capacity   *)
(* N: however many frames have been observed, it holds at most N samples.  *)
(* (render only ever pushes to metricsStoreRef.current.e2eLatencyMs; the   *)
(* store is emptied by startBench and by nothing else, so it outgrows any  *)
(* N.)                                                                     *)
(***************************************************************************)
C18_WindowAtMostN == Len(e2eLatencyMs) <= WindowN

(***************************************************************************)
(* C19.  The first updateBandwidth call that samples the counters only     *)
(* records them as the baseline: it appends nothing to bandwidthHistory    *)
(* and leaves the reported uplink/downlink as they were.  A bandwidth      *)
(* sample is appended only by a later sampling call, and its uplink and    *)
(* downlink are the growth of the sent / received byte counter since the   *)
(* previous sampling call, times 8, divided by the milliseconds elapsed    *)
(* since that call, rounded to the nearest integer (kbit/s).               *)
(***************************************************************************)
IsRounded(v, n, d) == 2 * v * d <= 2 * n + d /\ 2 * n + d < 2 * (v + 1) * d

MeanUplink(samples) ==
  Max0(calculateMovingAverage([i \in 1..Len(samples) |-> samples[i].uplink]))

MeanDownlink(samples) ==
  Max0(calculateMovingAverage([i \in 1..Len(samples) |-> samples[i].downlink]))

C20_SummaryOfRunOnly ==
  [][(benchRunning /\ ~benchRunning') =>
       LET summary == artifact'.summary
           frames == ticks - ticksAtStart
           runBw == SubSeq(bandwidthHistory, bwAtStart + 1, Len(bandwidthHistory))
       IN /\ Len(artifact'.samples) = frames
          /\ summary.median = toFixed1(percentile(artifact'.samples, 50))
          /\ summary.p95 = toFixed1(percentile(artifact'.samples, 95))
          /\ summary.fps_processed = RoundDiv(frames, durationSec)
          /\ runBw # <<>> =>
               /\ summary.uplink_kbps = MeanUplink(runBw)
               /\ summary.downlink_kbps = MeanDownlink(runBw)]_vars

(***************************************************************************)
(* C21.  A benchmark capture lasts durationSec seconds counted from the    *)
(* first benchTick that runs after startBench was called: when the         *)
(* artifact is emitted, at least durationSec * 1000 ms have passed since   *)
(* that first tick.                                                        *)
(* (startBench reads start = performance.now() and fixes endAt = start +   *)
(* durationSec * 1000 in the call itself, before any tick.)                *)
(***************************************************************************)
C21_DurationFromFirstTick ==
  [][(benchRunning /\ ~benchRunning') =>
       now - firstTickAt' >= durationSec * 1000]_vars

(***************************************************************************)
(* C22.  Each benchmark run downloads its artifact exactly once: there are *)
(* never more downloads than runs, a run in progress has not downloaded    *)
(* yet and a finished run has; while a run is in progress (startBench      *)
(* calls included) nothing is removed from the sample store and the frame  *)
(* counter does not go back; and every started run eventually downloads    *)
(* its artifact.                                                           *)
(***************************************************************************)
C22_ArtifactOncePerRun ==
  /\ [](artifacts = IF benchRunning THEN runs - 1 ELSE runs)
  /\ [][(benchRunning /\ benchRunning') =>
          /\ Len(e2eLatencyMs') >= Len(e2eLatencyMs)
          /\ processedFrames' >= processedFrames
          /\ artifacts' = artifacts]_vars
  /\ (benchRunning ~> (~benchRunning /\ artifacts = runs))

\* a finished run that observed frames: one download, holding its samples
C22_Witness ==
  /\ runs = 1
  /\ ~benchRunning
  /\ artifacts = 1
  /\ Len(artifact.samples) >= 2

(***************************************************************************)
(* C23.  The fps_processed of a benchmark summary is the number of frames  *)
(* render observed between startBench and the emission of the artifact,    *)
(* divided by durationSec and rounded to the nearest integer.              *)
(***************************************************************************)
C23_FpsIsFramesOverDuration ==
  [][(benchRunning /\ ~benchRunning') =>
       /\ artifact'.durationSec = durationSec
       /\ IsRounded(artifact'.summary.fps_processed, ticks - ticksAtStart,
                    durationSec)]_vars

\* frames before the run, then 3 frames during a 2 s run: 3 / 2 rounds to 2
C23_Witness ==
  /\ ~benchRunning
  /\ artifacts = 1
  /\ ticksAtStart >= 1
  /\ ticks - ticksAtStart = 3
  /\ artifact.durationSec = 2
  /\ artifact.summary.fps_processed = 2

(***************************************************************************)
(* C24.  At both endpoints an ice-candidate that arrives before the        *)
(* peer's session description has been applied is not lost: no candidate   *)
(* is ever rejected, and once the description is set and the handlers have *)
(* finished, every candidate delivered so far has been added to the peer   *)
(* connection.                                                             *)
(* (JoinPage queues such a candidate and handleAnswer flushes the queue;   *)
(* DesktopPage handleIceCandidate calls addIceCandidate straight away and  *)
(* swallows the rejection.)                                                *)
(***************************************************************************)
Delivered(e) == Candidates \ toDeliver[e]

AddedSet(e) == {added[e][i] : i \in 1..Len(added[e])}

NotLostAt(e) ==
  /\ rejected[e] = {}
  /\ (remoteDescription[e] = "set" /\ (e = "producer" => ~flushing /\ pendingCandidates = <<>>))
       => AddedSet(e) = Delivered(e)

C24_CandidateNotLost == \A e \in Endpoints : NotLostAt(e)

\* the same for JoinPage alone
ProducerKeepsCandidates == NotLostAt("producer")

\* JoinPage: a candidate queued before the answer, added by the flush
ProducerQueuedThenAdded ==
  /\ remoteDescription["producer"] = "set"
  /\ ~flushing
  /\ added["producer"] = <<2, 1>>

(***************************************************************************)
(* C25.  Retrying playback is bounded: once RetryLimit calls of v.play()   *)
(* have failed, no retry timer is armed any more and the status line       *)
(* shows an error.                                                         *)
(* (The catch of tryPlay arms the next timer unconditionally; nothing      *)
(* counts the attempts, so the same holds for every limit.)                *)
(***************************************************************************)
C25_RetryBounded ==
  failedPlays >= RetryLimit => (retryTimers = 0 /\ connectionStatus = "error")

(***************************************************************************)
(* C26.  No frame waits for the detector: whenever render starts an        *)
(* inference, the frame it runs on is the frame the video element shows    *)
(* at that moment, the newest that has arrived, and never a frame older    *)
(* than one annotated before.  The frames that arrived while the previous  *)
(* call was unresolved, except the newest, are annotated by no call.       *)
(***************************************************************************)
C26_SubmitsNewest ==
  [][\A c \in inFlight' \ inFlight :
       /\ c.frame = videoFrame
       /\ c.frame >= lastSubmitted
       /\ lastSubmitted' = c.frame]_vars

\* a second inference is started after two frames arrived during the first
C26_Witness ==
  /\ inFlight # {}
  /\ skippedOver >= 2
  /\ lastSubmitted = videoFrame
  /\ \A c \in inFlight : c.frame = videoFrame

(***************************************************************************)
(* C27.  The step in which render resumes from a detect call that ran      *)
(* inference and did not fail makes lastDetections the list that call      *)
(* returned, and draws it: a non-empty list is stored as the result of the *)
(* completed call's frame, and after an empty list lastDetections is empty *)
(* and the overlay shows no box.                                           *)
(* (render assigns lastDetections.current only "if (detections.length >    *)
(* 0)"; after an empty result the boxes stored before stay and are drawn.) *)
(***************************************************************************)
C27_ResultReplaces ==
  [][\A c \in inFlight \ inFlight' :
       /\ lastRun'.kind = "stored" =>
            /\ lastDetections' # <<>>
            /\ lastDetectionsFrame' = c.frame
            /\ canvas'.boxes = lastDetections'
       /\ lastRun'.kind = "empty" =>
            /\ lastDetections' = <<>>
            /\ canvas'.boxes = <<>>]_vars

(***************************************************************************)
(* C28.  Every call of updateFPS (one per rendered frame) is counted in    *)
(* exactly one FPS value: the frames that went into the values computed so *)
(* far plus the frames held by the counter are all the frames rendered,    *)
(* for the tracker and for the page's own counter.  A value is computed    *)
(* only when at least 1000 ms have passed since the previous one (or since *)
(* construction), it is the rounded count per second over that time, and   *)
(* the step that computes it leaves the counter at zero and restarts the   *)
(* period at the current clock reading.                                    *)
(***************************************************************************)
C28_FrameInOneSample ==
  /\ [](/\ fpsCalls = SumSeq(sampledFrames) + fpsFrameCount
        /\ fpsCalls = SumSeq(sampledFramesRef) + fpsFrameCountRef)
  /\ [][/\ fpsHistory' # fpsHistory =>
             /\ now - lastFpsTime >= 1000
             /\ IsRounded(fpsHistory'[Len(fpsHistory')],
                          (fpsFrameCount + 1) * 1000, now - lastFpsTime)
             /\ fpsFrameCount' = 0
             /\ lastFpsTime' = now
        /\ fpsSamples' # fpsSamples =>
             /\ now - lastFpsTimeRef >= 1000
             /\ fpsFrameCountRef' = 0
             /\ lastFpsTimeRef' = now
        /\ fpsHistory' = fpsHistory => fpsFrameCount' >= fpsFrameCount
        /\ fpsSamples' = fpsSamples => fpsFrameCountRef' >= fpsFrameCountRef]_vars

\* two values computed, from 3 and from 2 frames; the counters are at zero
C28_Witness ==
  /\ sampledFrames = <<3, 2>>
  /\ sampledFramesRef = <<3, 2>>
  /\ Len(fpsHistory) = 2
  /\ Len(fpsSamples) = 2
  /\ fpsFrameCount = 0
  /\ fpsCalls = 5

(***************************************************************************)
(* C29.  A call of detect on a detector whose model is loaded advances     *)
(* frameCount by one; it runs inference exactly when the new count is a    *)
(* multiple of 3, and otherwise resolves with skipped = true, no           *)
(* detections and no error.  A call on a detector whose model is not       *)
(* loaded resolves with an error and no detections, runs no inference and  *)
(* leaves frameCount as it was.                                            *)
(***************************************************************************)
C29_EveryThirdCall ==
  [][detectCalls' # detectCalls =>
       /\ lastDetect'.countBefore = frameCount
       /\ IF isLoaded /\ model # "null"
          THEN /\ frameCount' = frameCount + 1
               /\ lastDetect'.ran <=> (frameCount' % 3 = 0)
               /\ lastDetect'.ran => ~lastDetect'.skipped
               /\ ~lastDetect'.ran =>
                    /\ lastDetect'.skipped
                    /\ lastDetect'.detections = <<>>
                    /\ lastDetect'.error = "null"
          ELSE /\ frameCount' = frameCount
               /\ ~lastDetect'.ran
               /\ ~lastDetect'.skipped
               /\ lastDetect'.detections = <<>>
               /\ lastDetect'.error \notin {"null", "none"}]_vars

\* the sixth call on a loaded detector ran inference, the second to do so
C29_Witness ==
  /\ isLoaded
  /\ frameCount = 6
  /\ detectCalls = 8
  /\ lastDetect.countBefore = 5
  /\ lastDetect.ran
  /\ lastDetect.detections # <<>>

(***************************************************************************)
(* C30.  Once initialize has finished, isLoaded implies that a model is    *)
(* set and loadError is null.  cocoSsd.load is awaited, or has settled,    *)
(* only if the local load settled before it and failed.  When both loads   *)
(* failed, isLoaded is false and loadError is set, and every call of       *)
(* detect from then on resolves with that error, runs no inference and     *)
(* leaves frameCount alone.                                                *)
(***************************************************************************)
BothFailed ==
  loads = <<[source |-> "local", ok |-> FALSE], [source |-> "cdn", ok |-> FALSE]>>

C30_LoadedOnlyWithModel ==
  /\ [](/\ isLoaded => (model # "null" /\ loadErrorText = "null")
        /\ (initPc = "cdn" \/ \E i \in 1..Len(loads) : loads[i].source = "cdn")
             => (loads # <<>> /\ loads[1] = [source |-> "local", ok |-> FALSE])
        /\ BothFailed => (initPc = "done" /\ ~isLoaded /\ loadErrorText # "null"))
  /\ [][(BothFailed /\ detectCalls' # detectCalls) =>
          /\ lastDetect'.error = loadErrorText
          /\ ~lastDetect'.ran
          /\ frameCount' = frameCount]_vars

\* both loads failed and a call of detect made afterwards got the error
C30_Witness ==
  /\ BothFailed
  /\ initPc = "done"
  /\ ~isLoaded
  /\ lastDetect.error = "all"

(***************************************************************************)
(* C31.  JoinPage adds every candidate it receives to its peer connection  *)
(* exactly once.  No addIceCandidate call is rejected; a candidate lies in *)
(* exactly one of: not yet received, queued, added; candidates are queued  *)
(* at the back and leave the queue from the front, each into the peer      *)
(* connection, so the queued candidates are added in the order they        *)
(* arrived; and once the answer is set and the flush has finished, all     *)
(* are added.  Candidates that arrive while the flush is running are added *)
(* directly.                                                               *)
(***************************************************************************)
Occurrences(seq, c) == Cardinality({i \in 1..Len(seq) : seq[i] = c})

C32_JoinAfterCamera ==
  /\ [](/\ wsState # "none" => cameraState = "granted"
        /\ sentByPhone # <<>> =>
             (cameraState = "granted" /\ sentByPhone[1] = "join")
        /\ \A i \in 1..Len(sentByPhone) :
             sentByPhone[i] = "offer" =>
               \E j \in 1..(i - 1) : sentByPhone[j] = "join"
        /\ cameraState = "denied" =>
             (wsState = "none" /\ pcRef = "null" /\ sentByPhone = <<>>))
  /\ [][cameraState = "denied" =>
          (cameraState' = "denied" /\ wsState' = "none" /\ sentByPhone' = <<>>)]_vars

\* camera granted, channel open, join sent and then the offer
C32_Witness ==
  /\ cameraState = "granted"
  /\ wsState = "open"
  /\ sentByPhone = <<"join", "offer">>

\* the camera was denied; the page shows it and nothing was opened
C32_DeniedCase ==
  /\ cameraState = "denied"
  /\ status = "Camera permission denied"
  /\ ~mounted

(***************************************************************************)
(* C33.  The viewer constructs at most one peer connection: however the    *)
(* handlers of offers and candidates overlap, ensurePeer has constructed   *)
(* at most one, it is the one peerConnectionRef holds from the first       *)
(* message on, and every offer and candidate is handed to that one.        *)
(***************************************************************************)
C33_OnePeerConnection ==
  /\ [](/\ pcCreated <= 1
        /\ peerMsgs > 0 => (pcCreated = 1 /\ peerConnectionRef = 1)
        /\ \A a \in appliedTo : a.pc = 1
        /\ \A h \in peerHandlers : h.pos = "applying" => h.pc = 1)
  /\ [][peerConnectionRef # 0 => peerConnectionRef' = peerConnectionRef]_vars

\* a candidate arrived first and created the connection; an offer and a
\* second candidate were handled while its handler was still suspended, and
\* all three were handed to connection 1
C33_Witness ==
  /\ pcCreated = 1
  /\ peerMsgs = 3
  /\ [id |-> 1, kind |-> "ice-candidate", pos |-> "applying", pc |-> 1] \in peerHandlers
  /\ [id |-> 2, kind |-> "offer", pc |-> 1] \in appliedTo
  /\ [id |-> 3, kind |-> "ice-candidate", pc |-> 1] \in appliedTo
  /\ answersSent = 1

(***************************************************************************)
(* C34.  Each history of the tracker holds at most maxSamples = 30         *)
(* samples, and they are the most recent ones in the order they were       *)
(* pushed: after n pushes the history holds samples n - 29 .. n (all of    *)
(* them while n <= 30).  A push onto a full history removes its oldest     *)
(* sample and appends the new one.                                         *)
(***************************************************************************)
C34_WindowAtMostMaxSamples ==
  /\ [](\A h \in Histories :
          LET w == trackerWindows[h]
              n == trackerPushes[h]
          IN /\ Len(w) <= 30
             /\ Len(w) = IF n <= 30 THEN n ELSE 30
             /\ \A i \in 1..Len(w) : w[i] = n - Len(w) + i)
  /\ [][\A h \in Histories :
          (trackerPushes'[h] # trackerPushes[h] /\ Len(trackerWindows[h]) = 30) =>
             trackerWindows'[h] =
               Append(Tail(trackerWindows[h]), trackerPushes'[h])]_vars

\* 32 samples were pushed onto latencyHistory: it holds samples 3 .. 32
C34_Witness ==
  /\ trackerPushes["latencyHistory"] = 32
  /\ Len(trackerWindows["latencyHistory"]) = 30
  /\ Head(trackerWindows["latencyHistory"]) = 3
  /\ trackerPushes["fpsHistory"] >= 31
  /\ trackerPushes["bandwidthHistory"] >= 31

(***************************************************************************)
(* C35.  However updateBandwidth calls overlap at getStats, two bandwidth  *)
(* samples are never appended less than 1000 ms apart: a call that appends *)
(* does so at least 1000 ms after the previous append and after the        *)
(* previous sampling call, and a call that resumes earlier than that       *)
(* changes nothing.                                                        *)
(***************************************************************************)
C35_OneSamplePerSecond ==
  [][/\ bandwidthHistory' # bandwidthHistory =>
          /\ lastAppendAt # -1 => now - lastAppendAt >= 1000
          /\ now - lastBandwidthCheck >= 1000
          /\ Len(bandwidthHistory') = Len(bandwidthHistory) + 1
     /\ (bwPending' < bwPending /\ now - lastBandwidthCheck < 1000) =>
          /\ bandwidthHistory' = bandwidthHistory
          /\ lastBandwidthCheck' = lastBandwidthCheck
          /\ lastBytesReceived' = lastBytesReceived]_vars

\* the second sample has just been appended, 1000 ms after the first, while two
\* more calls are suspended at getStats
C35_Witness ==
  /\ lastAppendAt = now
  /\ lastBandwidthCheck = now
  /\ Len(bandwidthHistory) = 2
  /\ samplingCalls = 3
  /\ now = 3000
  /\ bwPending = 2

(***************************************************************************)
(* C36.  The bandwidth the tracker reports, uplink and downlink, is never  *)
(* negative: a sample computed across a decrease of the cumulative byte    *)
(* counters is negative and may pull the moving average below zero, but    *)
(* the reported value is clamped at 0; a failed read of the counters       *)
(* reports uplink 0 and downlink 500.                                      *)
(***************************************************************************)
C36_BandwidthNeverNegative ==
  /\ [](currentBandwidth.uplink >= 0 /\ currentBandwidth.downlink >= 0)
  /\ [][(bwPending' < bwPending /\ samplingCalls' = samplingCalls
           /\ currentBandwidth' # currentBandwidth) =>
          currentBandwidth' = [uplink |-> 0, downlink |-> 500]]_vars

\* the counters decreased between two samples: the window's moving average
\* is negative and 0 is reported
C36_Witness ==
  /\ Len(bandwidthHistory) >= 1
  /\ lastAppendAt = now
  /\ calculateMovingAverage([i \in 1..Len(bandwidthHistory) |-> bandwidthHistory[i].downlink]) < 0
  /\ bytesReceived < lastBytesReceived + 125
  /\ currentBandwidth.downlink = 0

\* reading the counters failed after a negative sample
C36_FailedRead ==
  /\ Len(bandwidthHistory) >= 1
  /\ bandwidthHistory[Len(bandwidthHistory)].downlink < 0
  /\ currentBandwidth = [uplink |-> 0, downlink |-> 500]

(***************************************************************************)
(* C37.  A sample enters the live latency window only for a detect call    *)
(* on which inference ran: no sample of the window was timed on a call     *)
(* that frame thinning skipped, and a render run whose detect call is      *)
(* skipped leaves the window as it was.                                    *)
(***************************************************************************)
C37_LatencyOnlyForInference ==
  /\ [](\A i \in 1..Len(latencyHistory) :
          ~latencyHistory[i].skipped /\ RunsInference(latencyHistory[i].call))
  /\ [][(frameCount' = frameCount + 1 /\ ~RunsInference(frameCount')) =>
          latencyHistory' = latencyHistory]_vars

(***************************************************************************)
(* C38.  The per-frame arrays e2eLatencyMs, latencyMs,                     *)
(* detectionCountPerFrame and detectionsByFrame always have the same       *)
(* length, which is the frame index and the processed-frame counter, and   *)
(* the i-th record of detectionsByFrame carries frame number i, however    *)
(* render runs and startBench calls interleave.                            *)
(***************************************************************************)
C38_StoreArraysAligned ==
  /\ Len(e2eLatencyMs) = frameIndex
  /\ Len(latencyMs) = frameIndex
  /\ Len(detectionCountPerFrame) = frameIndex
  /\ Len(detectionsByFrame) = frameIndex
  /\ processedFrames = frameIndex
  /\ \A i \in 1..Len(detectionsByFrame) : detectionsByFrame[i].frame = i

\* two frames were stored, a benchmark start emptied the store, two more
\* frames were stored after it
C38_Witness ==
  /\ runs = 1
  /\ ticksAtStart = 2
  /\ ticks = 4
  /\ frameIndex = 2
  /\ latencyMs = <<40, 0>>
  /\ detectionsByFrame[2].frame = 2

(***************************************************************************)
(* C39.  The page's percentile(values, p) and the tracker's                *)
(* calculatePercentile on the ascending sort of the same window return     *)
(* the same value for every window and every p, 0 for the empty window,    *)
(* and computing either leaves the window as it was.                       *)
(***************************************************************************)
C39_PercentilesAgree ==
  /\ []((pctOut # -1 /\ trkOut # -1) => pctOut = trkOut)
  /\ []((pctValues = <<>> /\ pctOut # -1) => pctOut = 0)
  /\ []((pctValues = <<>> /\ trkOut # -1) => trkOut = 0)
  /\ [][((pctOut = -1 /\ pctOut' # -1) \/ (trkOut = -1 /\ trkOut' # -1)) =>
          pctValues' = pctValues /\ pctP' = pctP]_vars

\* both were computed on an unsorted window, between two ranks
C39_Witness ==
  /\ pctValues = <<40, 10, 30>>
  /\ pctP = 95
  /\ pctOut = 3900
  /\ trkOut = 3900

\* both were computed on the empty window
C39_EmptyWindow ==
  /\ pctValues = <<>>
  /\ pctOut = 0
  /\ trkOut = 0

====
